---- MODULE Spec2Model ----
(***************************************************************************)
(* A model of @seenn/node: the HTTP request executor (HttpClient), the     *)
(* error classes, the Job handle and the SeennClient facade.               *)
(*                                                                         *)
(* An executor call is one activation of HttpClient.request /              *)
(* executeWithRetry.  It suspends at its awaits (the fetch of an attempt,  *)
(* the backoff sleep), so each call is a small process: Request starts it  *)
(* and runs it up to the first fetch, Settle delivers the outcome of the   *)
(* attempt in flight and runs the catch block, Wake ends a backoff sleep   *)
(* and starts the next attempt.                                            *)
(***************************************************************************)
EXTENDS Integers, Sequences, FiniteSets, TLC

VARIABLES
    client,     \* the SeennClient: its resolved config, or the constructor's failure
    calls,      \* executor calls: call id -> the locals of request/executeWithRetry
    wire,       \* the requests put on the network so far, in order
    handles,    \* Job handles: handle id -> the fields of the Job instance
    ops         \* facade / handle operations awaiting executor calls

vars == <<client, calls, wire, handles, ops>>

----------------------------------------------------------------------------
(* Bounds of the model *)

\* largest maxRetries a configuration supplies (the default, 3, is also reached)
MaxSuppliedRetries == 2

\* program constants
DefaultMaxRetries == 3
DefaultTimeout == 30000
BaseDelay == 1000
MaxDelay == 30000

----------------------------------------------------------------------------
(* Values *)

\* JavaScript's undefined and null; Some(v) is a value that is present
Undefined == [undefined |-> TRUE]

Null == [null |-> TRUE]

Some(v) == [some |-> v]

IsUndefined(v) == "undefined" \in DOMAIN v

IsNull(v) == "null" \in DOMAIN v

\* truthiness of an optional string: undefined, null and "" are falsy
TruthyString(v) == "some" \in DOMAIN v /\ v.some # ""

\* truthiness of an optional object: undefined and null are falsy
TruthyObject(v) == "some" \in DOMAIN v

----------------------------------------------------------------------------
(* errors.ts *)

SeennError(message, code, statusCode, details) ==
    [name |-> "SeennError", code |-> code, message |-> message,
     statusCode |-> statusCode, details |-> details]

ValidationError(message, details) ==
    [SeennError(message, "VALIDATION_ERROR", 400, details) EXCEPT !.name = "ValidationError"]

NotFoundError(resource, id) ==
    [SeennError("not found", "NOT_FOUND", 404, <<resource, id>>) EXCEPT !.name = "NotFoundError"]

RateLimitError(retryAfter, limit, remaining) ==
    [name |-> "RateLimitError", code |-> "RATE_LIMIT_EXCEEDED",
     message |-> "Rate limit exceeded", statusCode |-> 429,
     details |-> <<retryAfter, limit, remaining>>,
     retryAfter |-> retryAfter, limit |-> limit, remaining |-> remaining]

AuthenticationError(message) ==
    [SeennError(message, "AUTHENTICATION_ERROR", 401, <<>>) EXCEPT !.name = "AuthenticationError"]

\* error instanceof SeennError: the class or one of its subclasses
SeennErrorNames ==
    {"SeennError", "ValidationError", "NotFoundError", "RateLimitError",
     "AuthenticationError", "ConflictError"}

InstanceOfSeennError(e) == "name" \in DOMAIN e /\ e.name \in SeennErrorNames

InstanceOfRateLimitError(e) == "name" \in DOMAIN e /\ e.name = "RateLimitError"

ConflictError(message, details) ==
    [SeennError(message, "CONFLICT", 409, details) EXCEPT !.name = "ConflictError"]

----------------------------------------------------------------------------
(* client.ts: the SeennClient constructor *)

StartsWith(s, prefix) ==
    Len(s) >= Len(prefix) /\ SubSeq(s, 1, Len(prefix)) = prefix

\* config.maxRetries || 3 : an absent field and 0 are both falsy
ResolveMaxRetries(supplied) ==
    IF "maxRetries" \in DOMAIN supplied /\ supplied.maxRetries # 0
    THEN supplied.maxRetries
    ELSE DefaultMaxRetries

\* config.timeout || 30000
ResolveTimeout(supplied) ==
    IF "timeout" \in DOMAIN supplied /\ supplied.timeout # 0
    THEN supplied.timeout
    ELSE DefaultTimeout

\* config.debug || false
ResolveDebug(supplied) ==
    IF "debug" \in DOMAIN supplied THEN supplied.debug ELSE FALSE

\* a variant of the constructor that checks nothing
NewSeennClientUnchecked(supplied) ==
    [ok |-> TRUE,
     supplied |-> supplied,
     config |-> [apiKey |-> supplied.apiKey,
                 timeout |-> ResolveTimeout(supplied),
                 maxRetries |-> ResolveMaxRetries(supplied),
                 debug |-> ResolveDebug(supplied)]]

\* new SeennClient(config): the client, or the Error the constructor throws
NewSeennClient(supplied) ==
    IF supplied.apiKey = <<>>
    THEN [ok |-> FALSE, error |-> "apiKey is required", supplied |-> supplied]
    ELSE IF ~StartsWith(supplied.apiKey, <<"s", "k", "_">>)
    THEN [ok |-> FALSE, error |-> "apiKey must start with sk_live_ or sk_test_",
          supplied |-> supplied]
    ELSE [ok |-> TRUE,
          supplied |-> supplied,
          config |-> [apiKey |-> supplied.apiKey,
                      timeout |-> ResolveTimeout(supplied),
                      maxRetries |-> ResolveMaxRetries(supplied),
                      debug |-> ResolveDebug(supplied)]]

\* the configurations a caller passes to the constructor
ApiKeys ==
    {<<>>, <<"s", "k">>, <<"p", "k", "_", "x">>, <<"s", "k", "_", "x">>}

SuppliedConfigs ==
    {[apiKey |-> k] : k \in ApiKeys}
    \cup {[apiKey |-> k, maxRetries |-> m] :
            k \in ApiKeys, m \in (-1) .. MaxSuppliedRetries}
    \cup {[apiKey |-> k, maxRetries |-> m, debug |-> TRUE] :
            k \in {<<"s", "k", "_", "x">>}, m \in (-1) .. MaxSuppliedRetries}

----------------------------------------------------------------------------
(* What the network does to one attempt: the outcome of fetch(url, ...) *)

\* fetch resolves with a Response; decodable: response.json() resolves to body
Response(status, decodable, body, headers) ==
    [type |-> "response", status |-> status, decodable |-> decodable,
     body |-> body, headers |-> headers]

\* fetch rejects with an Error (DNS failure, connection reset)
FetchRejects == [type |-> "reject"]

\* the timeout fired first: controller.abort() makes fetch reject with AbortError
FetchAborted == [type |-> "abort"]

\* something that is not an Error is thrown inside the try block
FetchThrowsValue == [type |-> "throw"]

\* Response.ok
ResponseOk(status) == status >= 200 /\ status <= 299

\* the error body a server sends, {error: {code, message, details}}
ServerErrorBody ==
    [error |-> [code |-> "SERVER_CODE", message |-> "server message",
                details |-> <<"id", "job_1">>]]

NoHeaders == [none |-> TRUE]

RateLimitHeaders ==
    [retryAfter |-> 5, limit |-> 100, remaining |-> 7]

\* parseInt(response.headers.get(h) || dflt, 10)
HeaderOr(headers, h, dflt) ==
    IF h \in DOMAIN headers THEN headers[h] ELSE dflt

----------------------------------------------------------------------------
(* index.ts (the HttpClient): handleErrorResponse *)

\* a variant that makes a generic failure of every status
HandleErrorResponseGeneric(response) ==
    LET hasData == response.decodable /\ "error" \in DOMAIN response.body
        message == IF hasData THEN response.body.error.message ELSE "status text"
        code    == IF hasData THEN response.body.error.code ELSE "UNKNOWN"
        details == IF hasData THEN response.body.error.details ELSE <<>>
    IN  SeennError(message, code, response.status, details)

\* a variant that does not read the rate-limit headers
HandleErrorResponseDefaultHeaders(response) ==
    LET hasData == response.decodable /\ "error" \in DOMAIN response.body
        message == IF hasData THEN response.body.error.message ELSE "status text"
        code    == IF hasData THEN response.body.error.code ELSE "UNKNOWN"
        details == IF hasData THEN response.body.error.details ELSE <<>>
    IN  CASE response.status = 400 -> ValidationError(message, details)
          [] response.status = 401 -> AuthenticationError(message)
          [] response.status = 404 ->
                NotFoundError("Resource",
                              IF details # <<>> THEN details[2] ELSE "unknown")
          [] response.status = 429 -> RateLimitError(60, 0, 0)
          [] OTHER -> SeennError(message, code, response.status, details)

HandleErrorResponse(response) ==
    LET hasData == response.decodable /\ "error" \in DOMAIN response.body
        message == IF hasData THEN response.body.error.message ELSE "status text"
        code    == IF hasData THEN response.body.error.code ELSE "UNKNOWN"
        details == IF hasData THEN response.body.error.details ELSE <<>>
    IN  CASE response.status = 400 -> ValidationError(message, details)
          [] response.status = 401 -> AuthenticationError(message)
          [] response.status = 404 ->
                NotFoundError("Resource",
                              IF details # <<>> THEN details[2] ELSE "unknown")
          [] response.status = 429 ->
                RateLimitError(HeaderOr(response.headers, "retryAfter", 60),
                               HeaderOr(response.headers, "limit", 0),
                               HeaderOr(response.headers, "remaining", 0))
          [] OTHER -> SeennError(message, code, response.status, details)

\* a variant that returns what it has when the body of a 2xx response does
\* not decode
RequestFnLenient(outcome) ==
    CASE outcome.type = "response" ->
            IF ~ResponseOk(outcome.status)
            THEN [ok |-> FALSE, error |-> HandleErrorResponse(outcome)]
            ELSE [ok |-> TRUE, value |-> outcome.body]
      [] outcome.type = "abort" ->
            [ok |-> FALSE, error |-> SeennError("Request timeout", "TIMEOUT", 408, <<>>)]
      [] outcome.type = "reject" ->
            [ok |-> FALSE, error |-> SeennError("fetch failed", "NETWORK_ERROR", 0, <<>>)]
      [] OTHER ->
            [ok |-> FALSE, error |-> SeennError("Unknown error", "UNKNOWN", 0, <<>>)]

\* the function request() hands to executeWithRetry: one attempt.
\* [ok |-> TRUE, value] when it returns, [ok |-> FALSE, error] when it throws
RequestFn(outcome) ==
    CASE outcome.type = "response" ->
            IF ~ResponseOk(outcome.status)
            THEN [ok |-> FALSE, error |-> HandleErrorResponse(outcome)]
            ELSE IF outcome.decodable
            THEN [ok |-> TRUE, value |-> outcome.body]
            ELSE [ok |-> FALSE,
                  error |-> SeennError("Unexpected end of JSON input", "NETWORK_ERROR", 0, <<>>)]
      [] outcome.type = "abort" ->
            [ok |-> FALSE, error |-> SeennError("Request timeout", "TIMEOUT", 408, <<>>)]
      [] outcome.type = "reject" ->
            [ok |-> FALSE, error |-> SeennError("fetch failed", "NETWORK_ERROR", 0, <<>>)]
      [] OTHER ->
            [ok |-> FALSE, error |-> SeennError("Unknown error", "UNKNOWN", 0, <<>>)]

----------------------------------------------------------------------------
(* index.ts (the HttpClient): request and executeWithRetry *)

Methods == {"GET", "POST", "PUT", "DELETE"}

\* a variant that treats every call as idempotent
IdempotentAlways(method, idempotencyKey) == TRUE

\* method === 'GET' || !!options.idempotencyKey
Idempotent(method, idempotencyKey) ==
    method = "GET" \/ idempotencyKey

\* const maxRetries = idempotent ? this.config.maxRetries : 1
AttemptBudget(idempotent, config) ==
    IF idempotent THEN config.maxRetries ELSE 1

\* a variant without the exception for rate limits
AbortsOnAny4xx(error) ==
    /\ InstanceOfSeennError(error)
    /\ error.statusCode >= 400
    /\ error.statusCode < 500

\* a variant that rethrows only the failures with a class of their own
AbortsOnMappedOnly(error) ==
    /\ InstanceOfSeennError(error)
    /\ error.name \in {"ValidationError", "AuthenticationError", "NotFoundError"}

\* a variant that retries nothing but 5xx and rate limits
AbortsBelow500(error) ==
    /\ InstanceOfSeennError(error)
    /\ error.statusCode < 500
    /\ ~InstanceOfRateLimitError(error)

\* the check in the catch block that rethrows at once:
\* a SeennError with 400 <= statusCode < 500 that is not a RateLimitError
AbortsImmediately(error) ==
    /\ InstanceOfSeennError(error)
    /\ error.statusCode >= 400
    /\ error.statusCode < 500
    /\ ~InstanceOfRateLimitError(error)

RECURSIVE Pow2(_)
Pow2(n) == IF n <= 0 THEN 1 ELSE 2 * Pow2(n - 1)

Min(a, b) == IF a <= b THEN a ELSE b

\* Math.random(), in thousandths: a value in [0, 1)
Randoms == {0, 500, 999}

\* a variant without the cap
BackoffUncapped(attempt, random) ==
    LET exponentialDelay == BaseDelay * Pow2(attempt)
        jitter == (random * 2 * exponentialDelay) \div 10000
    IN  exponentialDelay + jitter

\* Math.min(exponentialDelay + jitter, 30000), in whole milliseconds
BackoffDelay(attempt, random) ==
    LET exponentialDelay == BaseDelay * Pow2(attempt)
        jitter == (random * 2 * exponentialDelay) \div 10000
    IN  Min(exponentialDelay + jitter, MaxDelay)

\* a variant that throws a wrapper once the attempts are used up
ThrowRetriesExhausted(call) ==
    SeennError("Retries exhausted", "RETRIES_EXHAUSTED", 0, <<>>)

\* throw lastError, after the loop
ThrowAfterLoop(call) == call.lastError

\* lastError = error as Error, in the catch block
CatchLastError(call, error) == error

\* the locals of a call that has not been made; owner is the operation that
\* awaits the call (0: none); attempts, sleeps and history record what the
\* call did: the fetches started, the sleeps started and the outcome of every
\* settled attempt
FreeCall ==
    [st |-> "free", owner |-> 0, method |-> "GET", path |-> <<>>,
     body |-> Undefined, idempotencyKey |-> FALSE,
     idempotent |-> FALSE, maxRetries |-> 0, attempt |-> 0,
     lastError |-> Undefined, result |-> Undefined, thrown |-> Undefined,
     delay |-> 0, attempts |-> 0, sleeps |-> 0, history |-> <<>>,
     logged |-> 0]

\* the head of the for loop: attempt < maxRetries starts fn() (the fetch goes
\* out), otherwise the loop is left and lastError is thrown
LoopHead(call) ==
    IF call.attempt < call.maxRetries
    THEN [call EXCEPT !.st = "inflight", !.attempts = @ + 1, !.delay = 0]
    ELSE [call EXCEPT !.st = "thrown", !.thrown = ThrowAfterLoop(call), !.delay = 0]

\* request(options) up to its first await, in a client configured with config
StartCallWith(config, method, path, body, idempotencyKey) ==
    LET idempotent == Idempotent(method, idempotencyKey)
    IN  LoopHead([FreeCall EXCEPT
                    !.method = method, !.path = path, !.body = body,
                    !.idempotencyKey = idempotencyKey,
                    !.idempotent = idempotent,
                    !.maxRetries = AttemptBudget(idempotent, config)])

\* request(options) up to its first await
StartCall(method, path, body, idempotencyKey) ==
    StartCallWith(client.config, method, path, body, idempotencyKey)

\* what goes on the network when a call starts an attempt
Sent(c, call) ==
    IF call.st = "inflight"
    THEN <<[call |-> c, method |-> call.method, path |-> call.path,
            body |-> call.body, attempt |-> call.attempt,
            idempotencyKeyHeader |-> call.idempotencyKey]>>
    ELSE <<>>

\* a variant of the loop body that sleeps after every failure that is not
\* rethrown, the last attempt's included
AfterAttemptAlwaysSleeps(call, outcome, random) ==
    LET r == RequestFn(outcome)
    IN  IF r.ok
        THEN [call EXCEPT !.st = "returned", !.result = r.value]
        ELSE IF AbortsImmediately(r.error)
        THEN [call EXCEPT !.lastError = r.error, !.st = "thrown", !.thrown = r.error]
        ELSE [call EXCEPT !.lastError = r.error,
                          !.st = "sleeping",
                          !.delay = BackoffDelay(call.attempt, random),
                          !.sleeps = @ + 1]

\* a variant that reports the failure of an earlier attempt, if there was
\* one, when an attempt succeeds
AfterAttemptSurfacesEarlier(call, outcome, random) ==
    LET r == RequestFn(outcome)
    IN  IF r.ok /\ IsUndefined(call.lastError)
        THEN [call EXCEPT !.st = "returned", !.result = r.value]
        ELSE IF r.ok
        THEN [call EXCEPT !.st = "thrown", !.thrown = call.lastError]
        ELSE
          LET caught == [call EXCEPT !.lastError = r.error]
          IN  IF AbortsImmediately(r.error)
              THEN [caught EXCEPT !.st = "thrown", !.thrown = r.error]
              ELSE IF call.attempt < call.maxRetries - 1
              THEN [caught EXCEPT !.st = "sleeping",
                                  !.delay = BackoffDelay(call.attempt, random),
                                  !.sleeps = @ + 1]
              ELSE LoopHead([caught EXCEPT !.attempt = @ + 1])

\* a variant whose log line replaces the wait
DebugLogInsteadOfSleep(config, call) ==
    IF config.debug THEN [call EXCEPT !.logged = @ + 1, !.delay = 0] ELSE call

\* if (this.config.debug) console.log(`[seenn] Retry ...`): one more line on
\* the console
DebugLog(config, call) ==
    IF config.debug THEN [call EXCEPT !.logged = @ + 1] ELSE call

\* the attempt in flight settles with outcome; the rest of the loop body
\* runs, in a client configured with config
AfterAttemptWith(config, call, outcome, random) ==
    LET r == RequestFn(outcome)
    IN  IF r.ok
        THEN [call EXCEPT !.st = "returned", !.result = r.value]
        ELSE
          LET caught == [call EXCEPT !.lastError = CatchLastError(call, r.error)]
          IN  IF AbortsImmediately(r.error)
              THEN [caught EXCEPT !.st = "thrown", !.thrown = r.error]
              ELSE IF call.attempt < call.maxRetries - 1
              THEN DebugLog(config,
                            [caught EXCEPT !.st = "sleeping",
                                           !.delay = BackoffDelay(call.attempt, random),
                                           !.sleeps = @ + 1])
              ELSE LoopHead([caught EXCEPT !.attempt = @ + 1])

\* the attempt in flight settles with outcome; the rest of the loop body runs
AfterAttempt(call, outcome, random) ==
    AfterAttemptWith(client.config, call, outcome, random)

\* a variant of the loop without attempt++
AfterSleepSameAttempt(call) == LoopHead(call)

\* the backoff sleep is over: attempt++ and back to the head of the loop
AfterSleep(call) == LoopHead([call EXCEPT !.attempt = @ + 1])

----------------------------------------------------------------------------
(* job.ts: the Job handle *)

\* new Date(isoString): the instants the responses of the model mention
DateParse(s) ==
    CASE s = "1970-01-01T00:00:01.000Z" -> [time |-> 1000]
      [] s = "1970-01-01T00:00:02.000Z" -> [time |-> 2000]
      [] s = "1970-01-01T00:00:03.000Z" -> [time |-> 3000]
      [] OTHER -> [invalid |-> TRUE]

\* x ? new Date(x) : undefined
OptionalDate(v) ==
    IF TruthyString(v) THEN Some(DateParse(v.some)) ELSE Undefined

\* constructor(data: JobResponse, http: HttpClient)
NewJob(data) ==
    [id |-> data.id,
     appId |-> data.appId,
     userId |-> data.userId,
     jobType |-> data.jobType,
     title |-> data.title,
     workflowId |-> data.workflowId,
     status |-> data.status,
     progress |-> data.progress,
     message |-> data.message,
     queue |-> data.queue,
     stage |-> data.stage,
     result |-> data.result,
     error |-> data.error,
     metadata |-> data.metadata,
     estimatedCompletionAt |-> data.estimatedCompletionAt,
     etaConfidence |-> data.etaConfidence,
     etaBasedOn |-> data.etaBasedOn,
     createdAt |-> DateParse(data.createdAt),
     updatedAt |-> DateParse(data.updatedAt),
     startedAt |-> OptionalDate(data.startedAt),
     completedAt |-> OptionalDate(data.completedAt),
     parent |-> data.parent,
     children |-> data.children,
     childProgressMode |-> data.childProgressMode]

\* a variant that takes every field from the response, the identity fields
\* included
UpdateAlsoIdentity(job, response) == NewJob(response)

\* a variant with a version check: a response older than the local state is
\* dropped
UpdateIfNewer(job, response) ==
    IF DateParse(response.updatedAt).time < job.updatedAt.time
    THEN job
    ELSE [NewJob(response) EXCEPT
            !.id = job.id, !.appId = job.appId, !.userId = job.userId,
            !.jobType = job.jobType, !.title = job.title,
            !.workflowId = job.workflowId, !.createdAt = job.createdAt]

\* private updateFromResponse(response: JobResponse)
UpdateFromResponse(job, response) ==
    [job EXCEPT
        !.status = response.status,
        !.progress = response.progress,
        !.message = response.message,
        !.queue = response.queue,
        !.stage = response.stage,
        !.result = response.result,
        !.error = response.error,
        !.metadata = response.metadata,
        !.estimatedCompletionAt = response.estimatedCompletionAt,
        !.etaConfidence = response.etaConfidence,
        !.etaBasedOn = response.etaBasedOn,
        !.updatedAt = DateParse(response.updatedAt),
        !.startedAt = OptionalDate(response.startedAt),
        !.completedAt = OptionalDate(response.completedAt),
        !.parent = response.parent,
        !.children = response.children,
        !.childProgressMode = response.childProgressMode]

\* the request each method of the handle makes
SetProgressPath(job) == <<"jobs", job.id, "progress">>

CompletePath(job) == <<"jobs", job.id, "complete">>

FailPath(job) == <<"jobs", job.id, "fail">>

RefreshPath(job) == <<"jobs", job.id>>

\* get isTerminal
IsTerminal(job) == job.status = "completed" \/ job.status = "failed"

\* get isParent: this.children !== undefined
IsParent(job) == ~IsUndefined(job.children)

\* get isChild: this.parent !== undefined
IsChild(job) == ~IsUndefined(job.parent)

\* get childProgress: null if !this.children
ChildProgress(job) ==
    IF ~TruthyObject(job.children)
    THEN Null
    ELSE Some([completed |-> job.children.some.completed,
               failed |-> job.children.some.failed,
               running |-> job.children.some.running,
               pending |-> job.children.some.pending,
               total |-> job.children.some.total])

\* a variant that looks at the ETA only
IsPastEtaWhateverStatus(job, now) ==
    /\ TruthyString(job.estimatedCompletionAt)
    /\ LET eta == DateParse(job.estimatedCompletionAt.some)
       IN  "time" \in DOMAIN eta /\ eta.time < now

\* get isPastEta, read when Date.now() is now: false without an ETA and when
\* terminal; getTime() of an invalid date is NaN, and NaN < now is false
IsPastEta(job, now) ==
    IF ~TruthyString(job.estimatedCompletionAt) \/ IsTerminal(job)
    THEN FALSE
    ELSE LET eta == DateParse(job.estimatedCompletionAt.some)
         IN  "time" \in DOMAIN eta /\ eta.time < now

\* the number that is not a number
NaN == [nan |-> TRUE]

\* a variant without the clamp at zero
EtaRemainingUnclamped(job, now) ==
    IF ~TruthyString(job.estimatedCompletionAt)
    THEN Null
    ELSE LET eta == DateParse(job.estimatedCompletionAt.some)
         IN  IF "time" \in DOMAIN eta THEN Some(eta.time - now) ELSE NaN

\* get etaRemaining, read when Date.now() is now: null without an ETA, else
\* Math.max(0, eta - Date.now()); getTime() of an invalid date is NaN, and
\* Math.max(0, NaN) is NaN
EtaRemaining(job, now) ==
    IF ~TruthyString(job.estimatedCompletionAt)
    THEN Null
    ELSE LET eta == DateParse(job.estimatedCompletionAt.some)
         IN  IF "time" \in DOMAIN eta
             THEN Some(IF eta.time - now > 0 THEN eta.time - now ELSE 0)
             ELSE NaN

\* toJSON(): the plain object made of the fields of the handle
ToJSON(job) ==
    [id |-> job.id,
     appId |-> job.appId,
     userId |-> job.userId,
     jobType |-> job.jobType,
     title |-> job.title,
     workflowId |-> job.workflowId,
     status |-> job.status,
     progress |-> job.progress,
     message |-> job.message,
     queue |-> job.queue,
     stage |-> job.stage,
     result |-> job.result,
     error |-> job.error,
     metadata |-> job.metadata,
     estimatedCompletionAt |-> job.estimatedCompletionAt,
     etaConfidence |-> job.etaConfidence,
     etaBasedOn |-> job.etaBasedOn,
     createdAt |-> job.createdAt,
     updatedAt |-> job.updatedAt,
     startedAt |-> job.startedAt,
     completedAt |-> job.completedAt,
     parent |-> job.parent,
     children |-> job.children,
     childProgressMode |-> job.childProgressMode]

\* a slot that holds no handle
NoJob == [none |-> TRUE]

IsJob(h) == "id" \in DOMAIN h

----------------------------------------------------------------------------
(* Responses of the server: JobResponse (types.ts) *)

PendingResponse(id, title) ==
    [id |-> id, appId |-> "app_1", userId |-> "u1", jobType |-> "video-generation",
     title |-> title, workflowId |-> Undefined,
     status |-> "pending", progress |-> 0, message |-> Undefined,
     queue |-> Undefined, stage |-> Undefined, result |-> Undefined,
     error |-> Undefined, metadata |-> Undefined,
     estimatedCompletionAt |-> Undefined, etaConfidence |-> Undefined,
     etaBasedOn |-> Undefined,
     createdAt |-> "1970-01-01T00:00:01.000Z",
     updatedAt |-> "1970-01-01T00:00:01.000Z",
     startedAt |-> Undefined, completedAt |-> Undefined,
     parent |-> Undefined, children |-> Undefined,
     childProgressMode |-> Undefined]

\* a parent job with its counters
ParentResponse(id, title, total, pending) ==
    [PendingResponse(id, title) EXCEPT
        !.children = Some([total |-> total, completed |-> 0, failed |-> 0,
                           running |-> 0, pending |-> pending]),
        !.childProgressMode = Some("average")]

\* a child job
ChildResponse(id, title, parentJobId, childIndex) ==
    [PendingResponse(id, title) EXCEPT
        !.parent = Some([parentJobId |-> parentJobId, childIndex |-> childIndex])]

RunningResponse(id, title) ==
    [PendingResponse(id, title) EXCEPT
        !.status = "running", !.progress = 50, !.message = Some("Rendering"),
        !.estimatedCompletionAt = Some("1970-01-01T00:00:03.000Z"),
        !.updatedAt = "1970-01-01T00:00:02.000Z",
        !.startedAt = Some("1970-01-01T00:00:02.000Z")]

\* a finished job, as the server reports it under another id and title; its
\* ETA has passed
CompletedResponse(id, title) ==
    [PendingResponse(id, title) EXCEPT
        !.appId = "app_2", !.userId = "u2", !.jobType = "export",
        !.workflowId = Some("wf"), !.createdAt = "1970-01-01T00:00:02.000Z",
        !.status = "completed", !.progress = 100, !.message = Some("Done"),
        !.queue = Some([position |-> 1, total |-> 1]),
        !.stage = Some([name |-> "finalize", current |-> 2, total |-> 2]),
        !.result = Some([type |-> "video", url |-> "u"]),
        !.metadata = Some([k |-> "v"]),
        !.estimatedCompletionAt = Some("1970-01-01T00:00:01.000Z"),
        !.etaConfidence = Some(80), !.etaBasedOn = Some(10),
        !.updatedAt = "1970-01-01T00:00:03.000Z",
        !.startedAt = Some("1970-01-01T00:00:02.000Z"),
        !.completedAt = Some("1970-01-01T00:00:03.000Z"),
        !.children = Some([total |-> 1, completed |-> 1, failed |-> 0,
                           running |-> 0, pending |-> 0]),
        !.childProgressMode = Some("average")]

\* a failed job whose JSON carries "children": null, an ETA that is not a
\* date and an error
NullChildrenResponse(id, title) ==
    [PendingResponse(id, title) EXCEPT
        !.status = "failed", !.progress = 10,
        !.error = Some([code |-> "RENDER_FAILED", message |-> "GPU memory exceeded"]),
        !.estimatedCompletionAt = Some("soon"),
        !.children = Null]

\* a job with the version field of JobResponse
VersionedResponse(id, title) ==
    LET r == PendingResponse(id, title)
    IN  [f \in DOMAIN r \cup {"version"} |->
            IF f = "version" THEN Some("1.0") ELSE r[f]]

----------------------------------------------------------------------------
(* client.ts: the facade.  An operation is an async function of the facade *)
(* or of a handle; it awaits executor calls.  What follows an await runs   *)
(* as soon as the awaited call ends (promise reactions are microtasks), so *)
(* it is part of the step that ends the call.                              *)

\* an operation that has not been invoked.  h: the handle slot it fills or
\* updates; value / error: what it returned / threw; params, children and
\* join belong to createBatch: its argument, the child handles built so far
\* and the promise of Promise.all(childPromises)
IdleOp ==
    [kind |-> "none", pc |-> "idle", h |-> 0,
     value |-> Undefined, error |-> Undefined,
     params |-> Undefined, children |-> <<>>,
     join |-> [state |-> "none", reason |-> Undefined]]

OpIds == DOMAIN ops

\* the variables as one value, so that a step can be computed in stages
World == [calls |-> calls, wire |-> wire, handles |-> handles, ops |-> ops]

Commit(w) ==
    /\ calls' = w.calls
    /\ wire' = w.wire
    /\ handles' = w.handles
    /\ ops' = w.ops
    /\ UNCHANGED client

\* operation owner invokes this.http.get/post/... on call slot c
Begin(w, c, method, path, body, idempotencyKey, owner) ==
    LET call == [StartCall(method, path, body, idempotencyKey) EXCEPT !.owner = owner]
    IN  [w EXCEPT !.calls[c] = call, !.wire = @ \o Sent(c, call)]

CallEnded(call) == call.st \in {"returned", "thrown"}

OpReturns(w, o, value) ==
    [w EXCEPT !.ops[o].pc = "returned", !.ops[o].value = value]

OpThrows(w, o, error) ==
    [w EXCEPT !.ops[o].pc = "thrown", !.ops[o].error = error]

\* encodeURIComponent on the keys of the model
EncodeURIComponent(key) ==
    CASE key = "video/hd" -> "video%2Fhd"
      [] OTHER -> key

EtaKeys == {"render", "video/hd"}

EtaPath(etaKey) == <<"v1", "eta", EncodeURIComponent(etaKey)>>

\* the test of the catch block of eta.getStats:
\* error && typeof error === 'object' && 'status' in error && error.status === 404
CatchesNotFound(error) ==
    /\ ~IsUndefined(error)
    /\ "status" \in DOMAIN error
    /\ error.status = 404

\* eta.getStats after its await
ResumeGetStats(w, o, c) ==
    LET call == w.calls[c]
    IN  IF call.st = "returned"
        THEN OpReturns(w, o, call.result)
        ELSE IF CatchesNotFound(call.thrown)
        THEN OpReturns(w, o, Null)
        ELSE OpThrows(w, o, call.thrown)

\* jobs.start / jobs.get / jobs.createParent / jobs.createChild after the
\* await: return new Job(response, this.http)
ResumeNewJob(w, o, c) ==
    LET call == w.calls[c]
    IN  IF call.st = "returned"
        THEN OpReturns([w EXCEPT !.handles[w.ops[o].h] = NewJob(call.result)],
                       o, [job |-> w.ops[o].h])
        ELSE OpThrows(w, o, call.thrown)

\* a variant that wraps the failure of the call and resets the progress
ResumeUpdateWrapping(w, o, c) ==
    LET call == w.calls[c]
        h == w.ops[o].h
    IN  IF call.st = "returned"
        THEN OpReturns([w EXCEPT !.handles[h] = UpdateFromResponse(@, call.result)],
                       o, [job |-> h])
        ELSE OpThrows([w EXCEPT !.handles[h].progress = 0], o,
                      SeennError("update failed", "UPDATE_FAILED", 0, <<>>))

\* a variant in which the handles of one job id share their state
ResumeUpdateShared(w, o, c) ==
    LET call == w.calls[c]
        h == w.ops[o].h
        same(k) == "id" \in DOMAIN w.handles[k] /\ w.handles[k].id = w.handles[h].id
    IN  IF call.st = "returned"
        THEN OpReturns([w EXCEPT !.handles =
                            [k \in DOMAIN w.handles |->
                                IF same(k)
                                THEN UpdateFromResponse(w.handles[k], call.result)
                                ELSE w.handles[k]]],
                       o, [job |-> h])
        ELSE OpThrows(w, o, call.thrown)

\* setProgress / complete / fail / refresh after the await:
\* this.updateFromResponse(response); return this
ResumeUpdate(w, o, c) ==
    LET call == w.calls[c]
        h == w.ops[o].h
    IN  IF call.st = "returned"
        THEN OpReturns([w EXCEPT !.handles[h] = UpdateFromResponse(@, call.result)],
                       o, [job |-> h])
        ELSE OpThrows(w, o, call.thrown)

----------------------------------------------------------------------------
(* client.ts: jobs.createBatch *)

\* largest number of child titles a batch is created with
MaxChildren == 2

TitlePool == <<"frame 0", "frame 1", "frame 2", "frame 3">>

\* the CreateBatchParams of the model: n child titles
BatchParams(n) ==
    [jobType |-> "video-generation", userId |-> "u1", parentTitle |-> "batch",
     childTitles |-> SubSeq(TitlePool, 1, n)]

\* the body jobs.createParent posts
ParentBody(params) ==
    [jobType |-> params.jobType, userId |-> params.userId,
     title |-> params.parentTitle,
     totalChildren |-> Len(params.childTitles)]

\* the body jobs.createChild posts for the title at index (0-based)
ChildBody(params, parentJobId, index) ==
    [jobType |-> params.jobType, userId |-> params.userId,
     title |-> params.childTitles[index + 1],
     parentJobId |-> parentJobId, childIndex |-> index]

\* the call slots createBatch uses: the parent creation, the child creation
\* for index i (0-based) and the refresh of the parent
ParentSlot == 1

ChildSlot(index) == index + 2

ChildSlots(params) == {ChildSlot(i) : i \in 0 .. Len(params.childTitles) - 1}

RefreshSlot == MaxChildren + 2

RECURSIVE SentRange(_, _, _)
SentRange(cs, from, to) ==
    IF from > to THEN <<>> ELSE Sent(from, cs[from]) \o SentRange(cs, from + 1, to)

\* a variant of the join that waits for every child before it rejects
\* (Promise.allSettled followed by a check)
RejectWhenAllSettled(join, cs, slots, c) ==
    LET reason == IF IsUndefined(join.reason) /\ cs[c].st = "thrown"
                  THEN Some(cs[c].thrown)
                  ELSE join.reason
    IN  IF join.state # "pending"
        THEN join
        ELSE IF \E k \in slots : ~CallEnded(cs[k])
        THEN [join EXCEPT !.reason = reason]
        ELSE IF IsUndefined(reason)
        THEN [join EXCEPT !.state = "fulfilled"]
        ELSE [state |-> "rejected", reason |-> reason]

\* Promise.all(childPromises) when the child call c settles: it rejects with
\* the first rejection, at once, and fulfils when every child has fulfilled
PromiseAll(join, cs, slots, c) ==
    IF join.state # "pending"
    THEN join
    ELSE IF c \in slots /\ cs[c].st = "thrown"
    THEN [state |-> "rejected", reason |-> Some(cs[c].thrown)]
    ELSE IF \A k \in slots : cs[k].st = "returned"
    THEN [join EXCEPT !.state = "fulfilled"]
    ELSE join

\* a variant that returns the parent as created, without refreshing it
ReturnWithoutRefresh(w, o) ==
    OpReturns(w, o, [parent |-> w.ops[o].h, children |-> w.ops[o].children])

\* await parent.refresh(): Job.refresh issues its GET
RefreshParent(w, o) ==
    LET w1 == Begin(w, RefreshSlot, "GET", RefreshPath(w.handles[w.ops[o].h]),
                    Undefined, FALSE, o)
    IN  IF w1.calls[RefreshSlot].st = "thrown"
        THEN OpThrows(w1, o, w1.calls[RefreshSlot].thrown)
        ELSE [w1 EXCEPT !.ops[o].pc = "refresh"]

\* createBatch once the parent is created: every child creation is issued
\* (params.childTitles.map), then Promise.all is awaited
StartChildren(w, o, parent) ==
    LET params == w.ops[o].params
        n == Len(params.childTitles)
        cs == [k \in DOMAIN w.calls |->
                 IF k \in ChildSlots(params)
                 THEN [StartCall("POST", <<"v1", "jobs">>,
                                 ChildBody(params, parent.id, k - 2), FALSE)
                         EXCEPT !.owner = o]
                 ELSE w.calls[k]]
        w1 == [w EXCEPT !.calls = cs,
                        !.wire = @ \o SentRange(cs, 2, n + 1),
                        !.handles[w.ops[o].h] = parent,
                        !.ops[o].pc = "children",
                        !.ops[o].children = [i \in 1 .. n |-> NoJob],
                        !.ops[o].join = [state |-> "pending", reason |-> Undefined]]
    IN  IF n = 0 THEN RefreshParent(w1, o) ELSE w1

\* a variant that collects the children as their responses arrive
ResolveChildOnArrival(children, i, job) ==
    LET free == {k \in DOMAIN children : children[k] = NoJob}
        first == CHOOSE k \in free : \A j \in free : k <= j
    IN  [children EXCEPT ![first] = job]

\* Promise.all(childPromises): the value of the promise at position i of the
\* array goes to position i of the result
ResolveChild(children, i, job) == [children EXCEPT ![i] = job]

\* a variant that marks the parent failed before it reports the failure
FailBatchCompensating(w, o, reason) ==
    OpThrows(Begin(w, RefreshSlot, "POST", FailPath(w.handles[w.ops[o].h]),
                   [error |-> [code |-> "BATCH_FAILED", message |-> "child failed"]],
                   FALSE, 0),
             o, reason)

\* await Promise.all(childPromises) throws: createBatch has no catch, so the
\* rejection leaves it as it is and nothing else is done
FailBatch(w, o, reason) == OpThrows(w, o, reason)

\* createBatch after the call c it awaits (directly, or through the promise
\* of a child) has ended
ResumeBatch(w, o, c) ==
    LET op == w.ops[o]
        call == w.calls[c]
    IN  CASE op.pc = "parent" ->
                IF call.st = "thrown"
                THEN OpThrows(w, o, call.thrown)
                ELSE StartChildren(w, o, NewJob(call.result))
          [] op.pc = "children" ->
                LET w1 == IF call.st = "returned"
                          THEN [w EXCEPT !.ops[o].children =
                                            ResolveChild(@, c - 1, NewJob(call.result))]
                          ELSE w
                    join == PromiseAll(op.join, w.calls, ChildSlots(op.params), c)
                    w2 == [w1 EXCEPT !.ops[o].join = join]
                IN  CASE join.state = "rejected" -> FailBatch(w2, o, join.reason.some)
                      [] join.state = "fulfilled" -> RefreshParent(w2, o)
                      [] OTHER -> w2
          [] op.pc = "refresh" ->
                IF call.st = "thrown"
                THEN OpThrows(w, o, call.thrown)
                ELSE OpReturns([w EXCEPT !.handles[op.h] =
                                            UpdateFromResponse(@, call.result)],
                               o, [parent |-> op.h, children |-> op.children])
          [] OTHER -> w

----------------------------------------------------------------------------
(* The step that ends a call also runs what awaits it *)

Resume(w, o, c) ==
    CASE w.ops[o].kind = "eta.getStats" -> ResumeGetStats(w, o, c)
      [] w.ops[o].kind \in {"jobs.start", "jobs.get"} -> ResumeNewJob(w, o, c)
      [] w.ops[o].kind \in {"setProgress", "complete", "fail", "refresh"} ->
            ResumeUpdate(w, o, c)
      [] w.ops[o].kind = "jobs.createBatch" -> ResumeBatch(w, o, c)
      [] OTHER -> w

Deliver(w, c) ==
    IF CallEnded(w.calls[c]) /\ w.calls[c].owner # 0
    THEN Resume(w, w.calls[c].owner, c)
    ELSE w

----------------------------------------------------------------------------
(* Steps *)

CallIds == DOMAIN calls

\* a caller invokes request(options) directly
Request(c, method, path, idempotencyKey) ==
    /\ client.ok
    /\ calls[c].st = "free"
    /\ Commit(Begin(World, c, method, path, Undefined, idempotencyKey, 0))

\* a variant that keeps lastError in the client, where every call sees it
SettleSharedLastError(c, outcome, random) ==
    /\ calls[c].st = "inflight"
    /\ LET call == AfterAttempt([calls[c] EXCEPT !.history = Append(@, outcome)],
                                outcome, random)
           shared == [d \in DOMAIN calls |->
                        IF d = c THEN call
                        ELSE IF calls[d].st = "free" THEN calls[d]
                        ELSE [calls[d] EXCEPT !.lastError = call.lastError]]
           w == [World EXCEPT !.calls = shared, !.wire = @ \o Sent(c, call)]
       IN  Commit(Deliver(w, c))

\* the network settles the attempt in flight of call c
Settle(c, outcome, random) ==
    /\ calls[c].st = "inflight"
    /\ LET call == AfterAttempt([calls[c] EXCEPT !.history = Append(@, outcome)],
                                outcome, random)
           w == [World EXCEPT !.calls[c] = call, !.wire = @ \o Sent(c, call)]
       IN  Commit(Deliver(w, c))

\* the timer of sleep(delay) fires
Wake(c) ==
    /\ calls[c].st = "sleeping"
    /\ LET call == AfterSleep(calls[c])
           w == [World EXCEPT !.calls[c] = call, !.wire = @ \o Sent(c, call)]
       IN  Commit(Deliver(w, c))

\* an operation that makes one call: it invokes the executor and awaits it
Invoke(o, c, kind, h, method, path, body) ==
    /\ client.ok
    /\ ops[o].pc = "idle"
    /\ calls[c].st = "free"
    /\ LET w == [World EXCEPT !.ops[o] = [IdleOp EXCEPT !.kind = kind,
                                                        !.pc = "awaiting",
                                                        !.h = h]]
       IN  Commit(Deliver(Begin(w, c, method, path, body, FALSE, o), c))

\* eta.getStats(etaKey)
EtaGetStats(o, c, etaKey) ==
    Invoke(o, c, "eta.getStats", 0, "GET", EtaPath(etaKey), Undefined)

\* jobs.start(params): the handle goes to slot h
JobsStart(o, c, h) ==
    /\ handles[h] = NoJob
    /\ Invoke(o, c, "jobs.start", h, "POST", <<"v1", "jobs">>,
              [jobType |-> "video-generation", userId |-> "u1", title |-> "t"])

\* jobs.get(jobId): the handle goes to slot h
JobsGet(o, c, h, jobId) ==
    /\ handles[h] = NoJob
    /\ Invoke(o, c, "jobs.get", h, "GET", <<"v1", "jobs", jobId>>, Undefined)

\* job.setProgress(progress) on the handle in slot h
SetProgress(o, c, h, progress) ==
    /\ IsJob(handles[h])
    /\ Invoke(o, c, "setProgress", h, "POST", SetProgressPath(handles[h]),
              [progress |-> progress])

\* job.complete() on the handle in slot h
Complete(o, c, h) ==
    /\ IsJob(handles[h])
    /\ Invoke(o, c, "complete", h, "POST", CompletePath(handles[h]), [none |-> TRUE])

\* job.fail({error}) on the handle in slot h
Fail(o, c, h) ==
    /\ IsJob(handles[h])
    /\ Invoke(o, c, "fail", h, "POST", FailPath(handles[h]),
              [error |-> [code |-> "RENDER_FAILED", message |-> "GPU memory exceeded"]])

\* job.refresh() on the handle in slot h
Refresh(o, c, h) ==
    /\ IsJob(handles[h])
    /\ Invoke(o, c, "refresh", h, "GET", RefreshPath(handles[h]), Undefined)

\* jobs.createBatch(params) with n child titles: createParent is awaited first
CreateBatch(o, h, n) ==
    /\ client.ok
    /\ ops[o].pc = "idle"
    /\ \A c \in CallIds : calls[c].st = "free"
    /\ LET params == BatchParams(n)
           w == [World EXCEPT !.ops[o] = [IdleOp EXCEPT !.kind = "jobs.createBatch",
                                                        !.pc = "parent",
                                                        !.h = h,
                                                        !.params = params]]
       IN  Commit(Deliver(Begin(w, ParentSlot, "POST", <<"v1", "jobs">>,
                                ParentBody(params), FALSE, o), ParentSlot))

----------------------------------------------------------------------------
(* The executor on its own: one call of request() with any options, under  *)
(* any configuration, against a network that answers anything.            *)

NoBody == [none |-> TRUE]

OkBody == [data |-> "payload"]

Statuses == {200, 304, 400, 401, 404, 409, 429, 500, 503}

Outcomes ==
    {Response(s, TRUE, IF ResponseOk(s) THEN OkBody ELSE ServerErrorBody, NoHeaders) :
        s \in Statuses}
    \cup {Response(200, FALSE, NoBody, NoHeaders),
          Response(500, FALSE, NoBody, NoHeaders),
          Response(429, TRUE, ServerErrorBody, RateLimitHeaders),
          FetchRejects, FetchAborted, FetchThrowsValue}

JobsPath == <<"v1", "jobs">>

Init ==
    /\ client \in {NewSeennClient(s) : s \in SuppliedConfigs}
    /\ calls = [c \in {1} |-> FreeCall]
    /\ wire = <<>>
    /\ handles = <<>>
    /\ ops = <<>>

DoRequest ==
    \E c \in CallIds, m \in Methods, k \in BOOLEAN : Request(c, m, JobsPath, k)

DoSettle ==
    \E c \in CallIds, o \in Outcomes, r \in Randoms : Settle(c, o, r)

DoWake == \E c \in CallIds : Wake(c)

Next == DoRequest \/ DoSettle \/ DoWake

Spec == Init /\ [][Next]_vars

----------------------------------------------------------------------------
(* eta.getStats: one lookup, under any configuration *)

EtaInit ==
    /\ client \in {NewSeennClient(s) : s \in SuppliedConfigs}
    /\ calls = [c \in {1} |-> FreeCall]
    /\ wire = <<>>
    /\ handles = <<>>
    /\ ops = [o \in {1} |-> IdleOp]

DoGetStats == \E o \in OpIds, c \in CallIds, k \in EtaKeys : EtaGetStats(o, c, k)

EtaNext == DoGetStats \/ DoSettle \/ DoWake

EtaSpec == EtaInit /\ [][EtaNext]_vars

----------------------------------------------------------------------------
(* jobs.createBatch: one batch against a server that creates the jobs it  *)
(* is asked for, or fails                                                  *)

\* what the server answers to the request of call: the job created or
\* fetched, or a failure
ServerJob(call) ==
    CASE call.method = "POST" /\ "totalChildren" \in DOMAIN call.body ->
            ParentResponse("job_p", call.body.title, call.body.totalChildren, 0)
      [] call.method = "POST" /\ "parentJobId" \in DOMAIN call.body ->
            ChildResponse(<<"job_c", call.body.childIndex>>, call.body.title,
                          call.body.parentJobId, call.body.childIndex)
      [] OTHER ->
            ParentResponse(call.path[Len(call.path)], "batch",
                           MaxChildren, MaxChildren)

BatchOutcomes(call) ==
    {Response(200, TRUE, ServerJob(call), NoHeaders),
     Response(400, TRUE, ServerErrorBody, NoHeaders),
     Response(503, FALSE, NoBody, NoHeaders),
     FetchRejects}

BatchInit ==
    /\ client \in {NewSeennClient(s) : s \in SuppliedConfigs}
    /\ calls = [c \in 1 .. RefreshSlot |-> FreeCall]
    /\ wire = <<>>
    /\ handles = [h \in {1} |-> NoJob]
    /\ ops = [o \in {1} |-> IdleOp]

DoCreateBatch == \E o \in OpIds, n \in 0 .. MaxChildren : CreateBatch(o, 1, n)

DoBatchSettle ==
    \E c \in CallIds, r \in Randoms :
        /\ calls[c].st = "inflight"
        /\ \E out \in BatchOutcomes(calls[c]) : Settle(c, out, r)

BatchNext == DoCreateBatch \/ DoBatchSettle \/ DoWake

BatchSpec == BatchInit /\ [][BatchNext]_vars

----------------------------------------------------------------------------
(* Job handles: jobs.start / jobs.get make them, their methods update them *)

\* operations (and calls) of the model of the handles
MaxJobOps == 2

JobIds == {"job_1", "job_2"}

JobOutcomes ==
    {Response(200, TRUE, PendingResponse("job_1", "t"), NoHeaders),
     Response(200, TRUE, RunningResponse("job_1", "t"), NoHeaders),
     Response(200, TRUE, RunningResponse("job_2", "other"), NoHeaders),
     Response(200, TRUE, NullChildrenResponse("job_1", "t"), NoHeaders),
     Response(200, TRUE, ParentResponse("job_1", "t", 2, 2), NoHeaders),
     Response(200, TRUE, VersionedResponse("job_1", "t"), NoHeaders),
     Response(404, TRUE, ServerErrorBody, NoHeaders),
     FetchRejects}

\* the configurations of the model of the handles: the defaults, a single
\* attempt, a negative maximum, and a key the constructor rejects
JobConfigs ==
    {[apiKey |-> <<"s", "k", "_", "x">>],
     [apiKey |-> <<"s", "k", "_", "x">>, maxRetries |-> 1],
     [apiKey |-> <<"s", "k", "_", "x">>, maxRetries |-> -1],
     [apiKey |-> <<"p", "k", "_", "x">>]}

JobInit ==
    /\ client \in {NewSeennClient(s) : s \in JobConfigs}
    /\ calls = [c \in 1 .. MaxJobOps |-> FreeCall]
    /\ wire = <<>>
    /\ handles = [h \in {1, 2} |-> NoJob]
    /\ ops = [o \in 1 .. MaxJobOps |-> IdleOp]

HandleIds == DOMAIN handles

DoJobsStart == \E o \in OpIds, h \in HandleIds : JobsStart(o, o, h)

DoJobsGet == \E o \in OpIds, h \in HandleIds, id \in JobIds : JobsGet(o, o, h, id)

DoSetProgress == \E o \in OpIds, h \in HandleIds : SetProgress(o, o, h, 50)

DoComplete == \E o \in OpIds, h \in HandleIds : Complete(o, o, h)

DoFail == \E o \in OpIds, h \in HandleIds : Fail(o, o, h)

DoRefresh == \E o \in OpIds, h \in HandleIds : Refresh(o, o, h)

DoJobSettle ==
    \E c \in CallIds, out \in JobOutcomes, r \in Randoms : Settle(c, out, r)

JobNext ==
    \/ DoJobsStart
    \/ DoJobsGet
    \/ DoSetProgress
    \/ DoComplete
    \/ DoFail
    \/ DoRefresh
    \/ DoJobSettle
    \/ DoWake

JobSpec == JobInit /\ [][JobNext]_vars

----------------------------------------------------------------------------
(* Two Job handles of one job, constructed from the same response, and the *)
(* operations a caller makes on them, awaited or not                       *)

HandleOutcomes ==
    {Response(200, TRUE, RunningResponse("job_1", "t"), NoHeaders),
     Response(200, TRUE, CompletedResponse("job_2", "other"), NoHeaders),
     Response(404, TRUE, ServerErrorBody, NoHeaders),
     FetchRejects}

HandleConfigs ==
    {[apiKey |-> <<"s", "k", "_", "x">>, maxRetries |-> 2]}

HandleInit ==
    /\ client \in {NewSeennClient(s) : s \in HandleConfigs}
    /\ calls = [c \in 1 .. MaxJobOps |-> FreeCall]
    /\ wire = <<>>
    /\ handles = [h \in {1, 2} |-> NewJob(PendingResponse("job_1", "t"))]
    /\ ops = [o \in 1 .. MaxJobOps |-> IdleOp]

\* operations are numbered in the order in which the caller invokes them
NextOp(o) == \A k \in OpIds : k < o => ops[k].pc # "idle"

\* the progress the caller passes to setProgress
ProgressArgument == 70

DoHandleSetProgress ==
    \E o \in OpIds, h \in HandleIds :
        NextOp(o) /\ SetProgress(o, o, h, ProgressArgument)

\* the caller completes the job through the second handle and fails it
\* through the first
DoHandleComplete == \E o \in OpIds : NextOp(o) /\ Complete(o, o, 2)

DoHandleFail == \E o \in OpIds : NextOp(o) /\ Fail(o, o, 1)

DoHandleRefresh == \E o \in OpIds, h \in HandleIds : NextOp(o) /\ Refresh(o, o, h)

\* the jitter plays no part in what a handle does: one value of Math.random()
HandleRandoms == {500}

DoHandleSettle ==
    \E c \in CallIds, out \in HandleOutcomes, r \in HandleRandoms : Settle(c, out, r)

HandleNext ==
    \/ DoHandleSetProgress
    \/ DoHandleComplete
    \/ DoHandleFail
    \/ DoHandleRefresh
    \/ DoHandleSettle
    \/ DoWake

HandleSpec == HandleInit /\ [][HandleNext]_vars

----------------------------------------------------------------------------
(* The backoff: one idempotent call that keeps failing, under maxima large *)
(* enough for the delay to reach its cap                                   *)

\* largest maxRetries of the configurations of the backoff model
MaxBackoffRetries == 7

\* Math.random(), in thousandths: the ends of [0, 1) and values in between
BackoffRandoms == {0, 1, 250, 500, 998, 999}

BackoffOutcomes ==
    {Response(503, TRUE, ServerErrorBody, NoHeaders),
     Response(429, TRUE, ServerErrorBody, RateLimitHeaders),
     Response(200, TRUE, OkBody, NoHeaders)}

BackoffInit ==
    /\ client \in {NewSeennClient([apiKey |-> <<"s", "k", "_", "x">>, maxRetries |-> m]) :
                      m \in 1 .. MaxBackoffRetries}
    /\ calls = [c \in {1} |-> FreeCall]
    /\ wire = <<>>
    /\ handles = <<>>
    /\ ops = <<>>

DoBackoffRequest == \E c \in CallIds : Request(c, "GET", JobsPath, FALSE)

DoBackoffSettle ==
    \E c \in CallIds, o \in BackoffOutcomes, r \in BackoffRandoms : Settle(c, o, r)

BackoffNext == DoBackoffRequest \/ DoBackoffSettle \/ DoWake

BackoffSpec == BackoffInit /\ [][BackoffNext]_vars

----------------------------------------------------------------------------
(* The public methods of the HttpClient: get, post, put and delete, the    *)
(* only way into request() from outside the class                          *)

\* get(path): request({method: 'GET', path})
HttpGet(c, path) ==
    /\ client.ok
    /\ calls[c].st = "free"
    /\ Commit(Begin(World, c, "GET", path, Undefined, FALSE, 0))

\* a variant of post that passes an idempotency key on
HttpPostWithKey(c, path, body) ==
    /\ client.ok
    /\ calls[c].st = "free"
    /\ Commit(Begin(World, c, "POST", path, body, TRUE, 0))

\* post(path, body): request({method: 'POST', path, body})
HttpPost(c, path, body) ==
    /\ client.ok
    /\ calls[c].st = "free"
    /\ Commit(Begin(World, c, "POST", path, body, FALSE, 0))

\* put(path, body): request({method: 'PUT', path, body})
HttpPut(c, path, body) ==
    /\ client.ok
    /\ calls[c].st = "free"
    /\ Commit(Begin(World, c, "PUT", path, body, FALSE, 0))

\* delete(path): request({method: 'DELETE', path})
HttpDelete(c, path) ==
    /\ client.ok
    /\ calls[c].st = "free"
    /\ Commit(Begin(World, c, "DELETE", path, Undefined, FALSE, 0))

\* a body a caller posts
SomeBody == [title |-> "t"]

DoGet == \E c \in CallIds : HttpGet(c, JobsPath)

DoPost == \E c \in CallIds : HttpPost(c, JobsPath, SomeBody)

DoPut == \E c \in CallIds : HttpPut(c, JobsPath, SomeBody)

DoDelete == \E c \in CallIds : HttpDelete(c, <<"v1", "eta", "render">>)

PublicNext == DoGet \/ DoPost \/ DoPut \/ DoDelete \/ DoSettle \/ DoWake

PublicSpec == Init /\ [][PublicNext]_vars

----------------------------------------------------------------------------
(* The classification of responses: one POST (a single attempt) answered   *)
(* with any status, body and rate-limit headers                            *)

ClassifyStatuses == {301, 304, 400, 401, 403, 404, 409, 422, 429, 500, 502, 503}

\* the bodies of an error response: the error object, JSON without one, and
\* a body that is not JSON
ClassifyBodies ==
    {[decodable |-> TRUE, body |-> ServerErrorBody],
     [decodable |-> TRUE, body |-> OkBody],
     [decodable |-> FALSE, body |-> NoBody]}

\* the rate-limit headers a response carries: none, some or all of them
ClassifyHeaders ==
    {NoHeaders,
     [retryAfter |-> 5],
     [limit |-> 100],
     [remaining |-> 7],
     [limit |-> 100, remaining |-> 7],
     RateLimitHeaders}

ClassifyOutcomes ==
    {Response(st, b.decodable, b.body, h) :
        st \in ClassifyStatuses, b \in ClassifyBodies, h \in ClassifyHeaders}

ClassifyInit ==
    /\ client = NewSeennClient([apiKey |-> <<"s", "k", "_", "x">>])
    /\ calls = [c \in {1} |-> FreeCall]
    /\ wire = <<>>
    /\ handles = <<>>
    /\ ops = <<>>

DoClassifySettle ==
    \E c \in CallIds, o \in ClassifyOutcomes, r \in HandleRandoms : Settle(c, o, r)

ClassifyNext == DoPost \/ DoClassifySettle

ClassifySpec == ClassifyInit /\ [][ClassifyNext]_vars

----------------------------------------------------------------------------
(* A rate-limited GET: the server answers an attempt with 429 and          *)
(* Retry-After: 5, with 503 or with success.  The network settles every    *)
(* fetch and every timer fires, hence the fairness conditions.             *)

RateLimitOutcomes ==
    {Response(429, TRUE, ServerErrorBody, RateLimitHeaders),
     Response(503, TRUE, ServerErrorBody, NoHeaders),
     Response(200, TRUE, OkBody, NoHeaders)}

\* the configurations the constructor accepts
AcceptedConfigs == {s \in SuppliedConfigs : NewSeennClient(s).ok}

RateLimitInit ==
    /\ client \in {NewSeennClient(s) : s \in AcceptedConfigs}
                    \cup {NewSeennClient([apiKey |-> <<"s", "k", "_", "x">>,
                                          maxRetries |-> m]) :
                                m \in 1 .. MaxBackoffRetries}
    /\ calls = [c \in {1} |-> FreeCall]
    /\ wire = <<>>
    /\ handles = <<>>
    /\ ops = <<>>

DoRateLimitSettle ==
    \E c \in CallIds, o \in RateLimitOutcomes, r \in Randoms : Settle(c, o, r)

RateLimitNext == DoGet \/ DoRateLimitSettle \/ DoWake

RateLimitSpec ==
    /\ RateLimitInit
    /\ [][RateLimitNext]_vars
    /\ WF_vars(DoRateLimitSettle)
    /\ WF_vars(DoWake)

----------------------------------------------------------------------------
(* One attempt in two stages: fetch resolves when the headers arrive, then *)
(* response.json() reads the body.  The timer of the attempt is armed      *)
(* while the call is "inflight"; the attempt clears it when fetch          *)
(* resolves, and the call is then "reading", and "overdue" once the        *)
(* instant of the deadline has passed while it still reads.                *)

\* fetch resolves with the headers of a response: clearTimeout(timeoutId)
\* runs, then the body is awaited
HeadersArrive(c) ==
    /\ calls[c].st = "inflight"
    /\ Commit([World EXCEPT !.calls[c].st = "reading"])

\* response.json() (of the attempt, or of handleErrorResponse) settles: the
\* attempt ends with the response outcome
BodyArrives(c, outcome, random) ==
    /\ calls[c].st \in {"reading", "overdue"}
    /\ outcome.type = "response"
    /\ LET call == AfterAttempt([calls[c] EXCEPT !.history = Append(@, outcome)],
                                outcome, random)
           w == [World EXCEPT !.calls[c] = call, !.wire = @ \o Sent(c, call)]
       IN  Commit(Deliver(w, c))

\* config.timeout ms have passed since the attempt started.  With the timer
\* armed its callback aborts the fetch, which rejects with AbortError; a
\* timer that was cleared does nothing
DeadlineExpires(c, random) ==
    \/ Settle(c, FetchAborted, random)
    \/ /\ calls[c].st = "reading"
       /\ Commit([World EXCEPT !.calls[c].st = "overdue"])

DeadlineInit ==
    /\ client \in {NewSeennClient(s) : s \in AcceptedConfigs}
    /\ calls = [c \in {1} |-> FreeCall]
    /\ wire = <<>>
    /\ handles = <<>>
    /\ ops = <<>>

DeadlineOutcomes ==
    {Response(200, TRUE, OkBody, NoHeaders),
     Response(200, FALSE, NoBody, NoHeaders),
     Response(404, TRUE, ServerErrorBody, NoHeaders),
     Response(503, TRUE, ServerErrorBody, NoHeaders),
     Response(503, FALSE, NoBody, NoHeaders)}

DoHeadersArrive == \E c \in CallIds : HeadersArrive(c)

DoBodyArrives ==
    \E c \in CallIds, o \in DeadlineOutcomes, r \in Randoms : BodyArrives(c, o, r)

DoDeadlineExpires == \E c \in CallIds, r \in Randoms : DeadlineExpires(c, r)

DoFetchRejects == \E c \in CallIds, r \in Randoms : Settle(c, FetchRejects, r)

DeadlineNext ==
    \/ DoGet
    \/ DoPost
    \/ DoHeadersArrive
    \/ DoBodyArrives
    \/ DoDeadlineExpires
    \/ DoFetchRejects
    \/ DoWake

DeadlineSpec == DeadlineInit /\ [][DeadlineNext]_vars

----------------------------------------------------------------------------
(* Properties of the executor *)

\* the attempts of call c that went out on the network
OnWire(c) == {i \in DOMAIN wire : wire[i].call = c}

Started(c) == calls[c].st # "free"

Ended(c) == calls[c].st \in {"returned", "thrown"}

\* the claim's notion of an idempotent call
IsIdempotentCall(c) == calls[c].method = "GET" \/ calls[c].idempotencyKey

\* the outcome of the latest settled attempt of call c
HasOutcome(c) == calls[c].history # <<>>

LastOutcome(c) == calls[c].history[Len(calls[c].history)]

LastIsResponse(c) == HasOutcome(c) /\ LastOutcome(c).type = "response"

\* the status of the k-th settled attempt's response, 0 when there was none
StatusAt(c, k) ==
    IF calls[c].history[k].type = "response" THEN calls[c].history[k].status ELSE 0

\* the classified failure of the latest settled attempt
LastFailure(c) == RequestFn(LastOutcome(c)).error

\* C1: an idempotent call never makes an attempt beyond the configured
\* maximum (every attempt on the network is numbered at most maxRetries); a
\* call that is not idempotent makes exactly one attempt, whatever the
\* configuration and whatever the outcome of that attempt
C1_AttemptBound ==
    \A c \in CallIds :
        /\ IsIdempotentCall(c) =>
              \A k \in 1 .. Cardinality(OnWire(c)) : k <= client.config.maxRetries
        /\ (Started(c) /\ ~IsIdempotentCall(c)) =>
              /\ Cardinality(OnWire(c)) = 1
              /\ calls[c].attempts = 1
              /\ HasOutcome(c) => Ended(c)

C1_Witness ==
    \E c \in CallIds :
        /\ calls[c].method = "POST" /\ ~calls[c].idempotencyKey
        /\ client.config.maxRetries = 3
        /\ calls[c].st = "thrown"
        /\ calls[c].thrown.statusCode = 503
        /\ Cardinality(OnWire(c)) = 1

\* C2: an attempt of an idempotent call that ends because the deadline
\* expired is retried: the Timeout is surfaced only when the configured
\* maximum of attempts has been made
C2_TimeoutRetried ==
    \A c \in CallIds :
        (/\ IsIdempotentCall(c)
         /\ HasOutcome(c)
         /\ LastOutcome(c) = FetchAborted
         /\ calls[c].st = "thrown")
        => calls[c].attempts >= client.config.maxRetries

\* C4: on an idempotent call a 4xx response other than 429 ends the call at
\* that attempt (no retry); a 5xx or 429 response is retried, so that the
\* call surfaces it only when the configured maximum of attempts has been made
C4_RetryByStatus ==
    \A c \in CallIds :
        (IsIdempotentCall(c) /\ LastIsResponse(c)) =>
            LET status == LastOutcome(c).status
            IN  /\ (status \in 400 .. 499 /\ status # 429) =>
                      /\ calls[c].st = "thrown"
                      /\ calls[c].thrown = LastFailure(c)
                /\ (status \in 500 .. 599 \/ status = 429) =>
                      /\ calls[c].st \in {"sleeping", "inflight", "thrown"}
                      /\ calls[c].st = "sleeping" =>
                            calls[c].attempts < client.config.maxRetries
                      /\ calls[c].st = "thrown" =>
                            calls[c].attempts = client.config.maxRetries

C4_Witness ==
    \E c \in CallIds :
        /\ calls[c].method = "GET"
        /\ Len(calls[c].history) = 3
        /\ StatusAt(c, 1) = 503
        /\ StatusAt(c, 2) = 429
        /\ StatusAt(c, 3) = 404
        /\ calls[c].st = "thrown"

\* the statuses handleErrorResponse maps to a class of their own
MappedStatuses == {400, 401, 404, 429}

IsGenericFailure(c) ==
    /\ LastIsResponse(c)
    /\ ~ResponseOk(LastOutcome(c).status)
    /\ LastOutcome(c).status \notin MappedStatuses

\* C5 as claimed: on an idempotent call a generic failure whose status is
\* outside 500-599 is surfaced at that attempt, with no retry
C5_GenericOnly5xxRetried ==
    \A c \in CallIds :
        (/\ IsIdempotentCall(c)
         /\ IsGenericFailure(c)
         /\ LastOutcome(c).status \notin 500 .. 599)
        => calls[c].st = "thrown"

\* C5, amended: on an idempotent call a generic failure is surfaced with no
\* retry exactly when its status is in 400-499; with any other status (5xx,
\* but also 3xx) it is retried while attempts remain
C5_GenericRetriedUnless4xx ==
    \A c \in CallIds :
        (IsIdempotentCall(c) /\ IsGenericFailure(c)) =>
            IF LastOutcome(c).status \in 400 .. 499
            THEN /\ calls[c].st = "thrown"
                 /\ calls[c].thrown = LastFailure(c)
            ELSE /\ calls[c].st \in {"sleeping", "inflight", "thrown"}
                 /\ calls[c].st = "sleeping" =>
                       calls[c].attempts < client.config.maxRetries
                 /\ calls[c].st = "thrown" =>
                       calls[c].attempts = client.config.maxRetries

C5_Witness ==
    \E c \in CallIds :
        /\ calls[c].method = "GET"
        /\ Len(calls[c].history) = 2
        /\ StatusAt(c, 1) = 304
        /\ StatusAt(c, 2) = 409
        /\ calls[c].st = "thrown"
        /\ calls[c].thrown.statusCode = 409

\* C9: when an idempotent call has used up all its attempts, what it throws
\* is the classified failure of its last attempt
C9_LastFailureSurfaced ==
    \A c \in CallIds :
        (/\ IsIdempotentCall(c)
         /\ calls[c].st = "thrown"
         /\ HasOutcome(c)
         /\ Len(calls[c].history) = client.config.maxRetries)
        => calls[c].thrown = LastFailure(c)

C9_Witness ==
    \E c \in CallIds :
        /\ IsIdempotentCall(c)
        /\ calls[c].st = "thrown"
        /\ Len(calls[c].history) = 3
        /\ calls[c].history[1] = FetchRejects
        /\ StatusAt(c, 2) = 500
        /\ StatusAt(c, 3) = 429
        /\ calls[c].thrown.name = "RateLimitError"
        /\ RequestFn(calls[c].history[1]).error # calls[c].thrown

\* C10: a transport failure is classified NETWORK_ERROR; on an idempotent
\* call it is retried while attempts remain, on any other call it is
\* surfaced after the single attempt
C10_NetworkErrorRetried ==
    \A c \in CallIds :
        (HasOutcome(c) /\ LastOutcome(c) = FetchRejects) =>
            /\ LastFailure(c).code = "NETWORK_ERROR"
            /\ IF IsIdempotentCall(c)
               THEN /\ calls[c].st \in {"sleeping", "inflight", "thrown"}
                    /\ calls[c].st = "sleeping" =>
                          calls[c].attempts < client.config.maxRetries
                    /\ calls[c].st = "thrown" =>
                          /\ calls[c].attempts = client.config.maxRetries
                          /\ calls[c].thrown = LastFailure(c)
               ELSE /\ calls[c].st = "thrown"
                    /\ calls[c].attempts = 1
                    /\ calls[c].thrown = LastFailure(c)

C10_Witness ==
    \E c \in CallIds :
        /\ calls[c].method = "GET"
        /\ Len(calls[c].history) = 1
        /\ calls[c].history[1] = FetchRejects
        /\ calls[c].st = "inflight"
        /\ calls[c].attempts = 2

----------------------------------------------------------------------------
(* Properties of the facade and of the handle *)

\* the call operation o made (an operation of one call)
CallOf(o) == CHOOSE c \in CallIds : calls[c].owner = o

OpEnded(o) == ops[o].pc \in {"returned", "thrown"}

\* C3: eta.getStats returns null, and throws nothing, when the server
\* answers 404; with any other failure it throws the failure of the executor
C3_NotFoundGivesNull ==
    \A o \in OpIds :
        (ops[o].kind = "eta.getStats" /\ OpEnded(o) /\ calls[CallOf(o)].st = "thrown") =>
            IF LastIsResponse(CallOf(o)) /\ LastOutcome(CallOf(o)).status = 404
            THEN ops[o].pc = "returned" /\ ops[o].value = Null
            ELSE ops[o].pc = "thrown" /\ ops[o].error = calls[CallOf(o)].thrown

IsBatch(o) == ops[o].kind = "jobs.createBatch"

\* the child creations of batch o that have failed
FailedChildren(o) == {k \in ChildSlots(ops[o].params) : calls[k].st = "thrown"}

\* C6 as claimed: when a child creation fails, createBatch fails, and it
\* has failed only when every child-creation request has settled
C6_FailsAfterAllSettled ==
    \A o \in OpIds :
        (IsBatch(o) /\ FailedChildren(o) # {}) =>
            /\ \A k \in ChildSlots(ops[o].params) : CallEnded(calls[k]) =>
                  ops[o].pc = "thrown"
            /\ ops[o].pc = "thrown" =>
                  \A k \in ChildSlots(ops[o].params) : CallEnded(calls[k])

\* C6, amended: when a child creation fails, createBatch fails at once with
\* the failure of a child, whether or not its siblings have settled; the
\* siblings are not cancelled (each is in flight or has been answered) and
\* the parent is not refreshed
C6_FailsAtChildFailure ==
    \A o \in OpIds :
        (IsBatch(o) /\ FailedChildren(o) # {}) =>
            /\ ops[o].pc = "thrown"
            /\ ops[o].error \in {calls[k].thrown : k \in FailedChildren(o)}
            /\ \A k \in ChildSlots(ops[o].params) :
                  calls[k].st \in {"inflight", "returned", "thrown"}
            /\ calls[RefreshSlot].st = "free"

C6_Witness ==
    \E o \in OpIds :
        /\ IsBatch(o)
        /\ Len(ops[o].params.childTitles) = 2
        /\ calls[ChildSlot(1)].st = "thrown"
        /\ calls[ChildSlot(0)].st = "inflight"
        /\ ops[o].pc = "thrown"
        /\ ops[o].error = calls[ChildSlot(1)].thrown

\* C7: createBatch makes one parent-creation call, then one child-creation
\* call per title, all issued together once the parent's response is there
\* and carrying its id, then, once every child call has returned, one
\* refresh call (calls of the executor; each is one request on the network
\* except a refresh that is retried); the handle returned holds what the
\* refresh fetched
C7_BatchOrder ==
    \A o \in OpIds :
        IsBatch(o) =>
            LET n == Len(ops[o].params.childTitles)
                slots == ChildSlots(ops[o].params)
                started == {c \in CallIds : calls[c].st # "free"}
            IN  /\ wire # <<>> => wire[1].call = ParentSlot
                /\ Cardinality(OnWire(ParentSlot)) = 1
                /\ (\E k \in slots : k \in started) =>
                      /\ calls[ParentSlot].st = "returned"
                      /\ slots \subseteq started
                      /\ \A i \in 0 .. n - 1 :
                            /\ wire[i + 2].call = ChildSlot(i)
                            /\ wire[i + 2].method = "POST"
                            /\ wire[i + 2].path = <<"v1", "jobs">>
                            /\ wire[i + 2].body.parentJobId = calls[ParentSlot].result.id
                            /\ wire[i + 2].body.childIndex = i
                            /\ Cardinality(OnWire(ChildSlot(i))) = 1
                /\ RefreshSlot \in started =>
                      /\ \A k \in slots : calls[k].st = "returned"
                      /\ \A i \in OnWire(RefreshSlot) :
                            /\ i > n + 1
                            /\ wire[i].method = "GET"
                            /\ wire[i].path[Len(wire[i].path)] = calls[ParentSlot].result.id
                /\ ops[o].pc = "returned" =>
                      /\ started = {ParentSlot, RefreshSlot} \cup slots
                      /\ calls[RefreshSlot].st = "returned"
                      /\ ops[o].value.parent = ops[o].h
                      /\ handles[ops[o].h] =
                            UpdateFromResponse(NewJob(calls[ParentSlot].result),
                                               calls[RefreshSlot].result)

C7_Witness ==
    \E o \in OpIds :
        /\ IsBatch(o)
        /\ ops[o].pc = "returned"
        /\ Len(ops[o].params.childTitles) = 2
        /\ Len(wire) = 4
        /\ handles[ops[o].h].children # calls[ParentSlot].result.children
        /\ handles[ops[o].h].children = calls[RefreshSlot].result.children

\* the request the documented surface has for each method of the handle
DocumentedRequest(kind, id) ==
    CASE kind = "setProgress" -> [method |-> "POST", path |-> <<"v1", "jobs", id, "progress">>]
      [] kind = "complete" -> [method |-> "POST", path |-> <<"v1", "jobs", id, "complete">>]
      [] kind = "fail" -> [method |-> "POST", path |-> <<"v1", "jobs", id, "fail">>]
      [] kind = "refresh" -> [method |-> "GET", path |-> <<"v1", "jobs", id>>]

\* C8: setProgress, complete, fail and refresh address
\* /v1/jobs/:id/progress, /v1/jobs/:id/complete, /v1/jobs/:id/fail and
\* /v1/jobs/:id, the resource under which the facade made the handle
C8_HandleAddressesV1 ==
    \A o \in OpIds :
        ops[o].kind \in {"setProgress", "complete", "fail", "refresh"} =>
            LET want == DocumentedRequest(ops[o].kind, handles[ops[o].h].id)
            IN  /\ calls[CallOf(o)].method = want.method
                /\ calls[CallOf(o)].path = want.path

----------------------------------------------------------------------------
(* Properties of the Job handle *)

UpdateKinds == {"setProgress", "complete", "fail", "refresh"}

IdentityFields ==
    {"id", "appId", "userId", "jobType", "title", "workflowId", "createdAt"}

MutableFields ==
    {"status", "progress", "message", "queue", "stage", "result", "error",
     "metadata", "estimatedCompletionAt", "etaConfidence", "etaBasedOn",
     "updatedAt", "startedAt", "completedAt", "parent", "children",
     "childProgressMode"}

\* the mutable fields of a handle
MutableView(job) == [f \in MutableFields |-> job[f]]

\* the mutable fields as a response gives them: those of the handle the
\* constructor makes of it
ResponseView(response) == MutableView(NewJob(response))

\* in this step the update operation o resumes with a response / a failure
UpdateSucceeds(o) ==
    /\ ops[o].kind \in UpdateKinds
    /\ ops[o].pc = "awaiting"
    /\ ops'[o].pc = "returned"

UpdateFails(o) ==
    /\ ops[o].kind \in UpdateKinds
    /\ ops[o].pc = "awaiting"
    /\ ops'[o].pc = "thrown"

\* C11: when setProgress, complete, fail or refresh succeeds, every mutable
\* field of the handle becomes the value of the response (the progress is
\* the server's, not the argument), the identity fields keep their values
\* whatever the response carries, and the operation returns the handle it
\* was invoked on
C11_SuccessAppliesResponse ==
    [][\A o \in OpIds :
         UpdateSucceeds(o) =>
            LET h == ops[o].h
                response == calls'[CallOf(o)].result
            IN  /\ calls'[CallOf(o)].st = "returned"
                /\ MutableView(handles'[h]) = ResponseView(response)
                /\ handles'[h].progress = response.progress
                /\ \A f \in IdentityFields : handles'[h][f] = handles[h][f]
                /\ ops'[o].value = [job |-> h]]_vars

\* C11 witness: a setProgress(70) answered with progress 50 and an operation
\* answered with the fields of another job have both succeeded on a handle
C11_Witness ==
    \E o1, o2 \in OpIds, h \in HandleIds :
        /\ ops[o1].kind = "setProgress" /\ ops[o1].pc = "returned" /\ ops[o1].h = h
        /\ calls[CallOf(o1)].body.progress = ProgressArgument
        /\ calls[CallOf(o1)].result.progress = 50
        /\ ops[o2].kind \in UpdateKinds /\ ops[o2].pc = "returned" /\ ops[o2].h = h
        /\ calls[CallOf(o2)].result.id = "job_2"
        /\ calls[CallOf(o2)].result.title = "other"
        /\ handles[h].id = "job_1"
        /\ handles[h].title = "t"
        /\ handles[h].progress = 50
        /\ handles[h].status = "running"

\* C12: when the call of setProgress, complete, fail or refresh fails, the
\* operation throws the failure of the executor as it is and no field of any
\* handle changes
C12_FailureLeavesHandle ==
    [][\A o \in OpIds :
         UpdateFails(o) =>
            /\ calls'[CallOf(o)].st = "thrown"
            /\ ops'[o].error = calls'[CallOf(o)].thrown
            /\ ops'[o].error = LastFailure(CallOf(o))'
            /\ handles' = handles]_vars

\* C12 witness: an operation failed on a handle after another had succeeded
\* on it, and the handle is as the successful one left it
C12_Witness ==
    \E o1, o2 \in OpIds, h \in HandleIds :
        /\ ops[o1].kind \in UpdateKinds /\ ops[o1].pc = "returned" /\ ops[o1].h = h
        /\ ops[o2].kind \in UpdateKinds /\ ops[o2].pc = "thrown" /\ ops[o2].h = h
        /\ ops[o2].error.name = "NotFoundError"
        /\ MutableView(handles[h]) = ResponseView(calls[CallOf(o1)].result)
        /\ handles[h].status = "completed"

\* the update operations that have succeeded on handle h
SucceededOn(h) ==
    {o \in OpIds : ops[o].kind \in UpdateKinds /\ ops[o].h = h /\ ops[o].pc = "returned"}

\* the first request of operation o went out before the first of operation p
IssuedBefore(o, p) ==
    \E i \in OnWire(CallOf(o)) : \A j \in OnWire(CallOf(p)) : i < j

\* C13: with several mutating calls in flight on one handle, each response
\* replaces the whole mutable state when it is applied, whichever request
\* was issued first and whichever response is newer; so the state is always
\* that of one response (the last applied), never a mixture of two
C13_LastAppliedWins ==
    /\ [][\A o \in OpIds :
            (UpdateSucceeds(o) /\ SucceededOn(ops[o].h) # {}) =>
                MutableView(handles'[ops[o].h]) =
                    ResponseView(calls'[CallOf(o)].result)]_vars
    /\ [](\A h \in HandleIds :
            SucceededOn(h) # {} =>
                \E o \in SucceededOn(h) :
                    MutableView(handles[h]) = ResponseView(calls[CallOf(o)].result))

\* C13 witness: two calls were in flight together on a handle; the one
\* issued first got the older response and was applied last, and the handle
\* holds that response
C13_Witness ==
    \E o1, o2 \in OpIds, h \in HandleIds :
        /\ SucceededOn(h) = {o1, o2}
        /\ o1 # o2
        /\ IssuedBefore(o1, o2)
        /\ ops[o1].kind # "refresh" /\ ops[o2].kind # "refresh"
        /\ calls[CallOf(o1)].result.updatedAt = "1970-01-01T00:00:02.000Z"
        /\ calls[CallOf(o2)].result.updatedAt = "1970-01-01T00:00:03.000Z"
        /\ MutableView(handles[h]) = ResponseView(calls[CallOf(o1)].result)
        /\ MutableView(handles[h]) # ResponseView(calls[CallOf(o2)].result)

\* C14: a handle changes only in a step that applies the response of a call
\* of its own; whatever another handle of the same job does, succeeding or
\* failing, leaves it as it is
C14_HandlesIndependent ==
    [][\A h \in HandleIds :
         handles'[h] # handles[h] =>
            \E o \in OpIds :
                /\ ops[o].h = h
                /\ UpdateSucceeds(o)
                /\ calls[CallOf(o)].st = "inflight"
                /\ calls'[CallOf(o)].st = "returned"
                /\ handles'[h] = UpdateFromResponse(handles[h], calls'[CallOf(o)].result)
                /\ \A g \in HandleIds \ {h} : handles'[g] = handles[g]]_vars

\* C14 witness: two handles of job_1; operations have succeeded on the one
\* and failed on the other, which is as it was constructed
C14_Witness ==
    \E o1, o2 \in OpIds :
        /\ handles[1].id = handles[2].id
        /\ ops[o1].kind \in UpdateKinds /\ ops[o1].h = 1 /\ ops[o1].pc = "returned"
        /\ ops[o2].kind \in UpdateKinds /\ ops[o2].h = 2 /\ ops[o2].pc = "thrown"
        /\ handles[1].status = "completed"
        /\ handles[2] = NewJob(PendingResponse("job_1", "t"))

\* C15: on every handle, childProgress is null exactly when isParent is
\* false, whatever the response gave for children, a JSON null included
C15_ChildProgressIffParent ==
    \A h \in HandleIds :
        IsJob(handles[h]) =>
            (IsNull(ChildProgress(handles[h])) <=> ~IsParent(handles[h]))

\* the instants at which a caller reads isPastEta: before, at and after the
\* ETAs of the responses
Nows == {500, 1000, 2999, 3000, 3001}

\* C16: isPastEta is false on a handle whose status is completed or failed,
\* whatever its ETA and the time; it is true only with an ETA, a status that
\* is not terminal and an ETA strictly before the time of the reading
C16_PastEtaOnlyLive ==
    \A h \in HandleIds, now \in Nows :
        /\ handles[h].status \in {"completed", "failed"} => ~IsPastEta(handles[h], now)
        /\ IsPastEta(handles[h], now) =>
              /\ "some" \in DOMAIN handles[h].estimatedCompletionAt
              /\ handles[h].status \notin {"completed", "failed"}
              /\ DateParse(handles[h].estimatedCompletionAt.some).time < now

\* C16 witness: one handle is completed with an ETA in the past, the other
\* is running and goes past its ETA only after the instant of the ETA
C16_Witness ==
    \E h, g \in HandleIds :
        /\ handles[h].status = "completed"
        /\ handles[h].estimatedCompletionAt = Some("1970-01-01T00:00:01.000Z")
        /\ ~IsPastEta(handles[h], 3001)
        /\ handles[g].status = "running"
        /\ handles[g].estimatedCompletionAt = Some("1970-01-01T00:00:03.000Z")
        /\ ~IsPastEta(handles[g], 3000)
        /\ IsPastEta(handles[g], 3001)

----------------------------------------------------------------------------
(* Properties of the configuration and of the backoff *)

\* the key a caller supplied is not empty and begins with sk_
KeyHasPrefix(key) ==
    Len(key) >= 3 /\ key[1] = "s" /\ key[2] = "k" /\ key[3] = "_"

RetryableOutcome(out) ==
    \/ out.type = "reject"
    \/ out.type = "response" /\ (out.status >= 500 \/ out.status = 429)

\* the maximum a caller configured: maxRetries as supplied, 3 without it
ConfiguredMaximum ==
    IF "maxRetries" \in DOMAIN client.supplied
    THEN client.supplied.maxRetries
    ELSE 3

\* C18: an idempotent call whose attempts all fail with retryable failures
\* ends after exactly as many attempts as the maximum the caller supplied
\* (not negative), and after exactly 3 when none was supplied
C18_ExactlyConfigured ==
    \A c \in CallIds :
        (/\ client.ok
         /\ ConfiguredMaximum >= 0
         /\ IsIdempotentCall(c)
         /\ calls[c].st = "thrown"
         /\ \A k \in DOMAIN calls[c].history : RetryableOutcome(calls[c].history[k]))
        => Cardinality(OnWire(c)) = ConfiguredMaximum

\* C19: the delay of the sleep after the failure of attempt n (0-based) lies
\* between min(1000 * 2^n, 30000) and min(1200 * 2^n, 30000), and is never
\* more than 30000
C19_BackoffBounds ==
    \A c \in CallIds :
        calls[c].st = "sleeping" =>
            LET n == calls[c].attempt
                delay == calls[c].delay
            IN  /\ Min(1000 * Pow2(n), 30000) <= delay
                /\ delay <= Min(1200 * Pow2(n), 30000)
                /\ delay <= 30000

\* C19 witness: the call sleeps after attempt 5, where 1000 * 2^5 is above
\* the cap, and it slept a jittered delay below the cap before
C19_Witness ==
    \E c \in CallIds :
        /\ calls[c].st = "sleeping"
        /\ calls[c].attempt = 5
        /\ calls[c].delay = 30000
        /\ calls[c].sleeps = 6

\* C20: a call sleeps only after a failed attempt that is neither rethrown
\* nor the last, a call that is not idempotent never sleeps, an attempt
\* after the first starts only when the sleep before it is over, and a call
\* that has made k >= 1 attempts and is not asleep has slept k - 1 times
C20_SleepsBetweenAttempts ==
    /\ [](\A c \in CallIds :
            /\ calls[c].st = "sleeping" =>
                  /\ IsIdempotentCall(c)
                  /\ HasOutcome(c)
                  /\ ~RequestFn(LastOutcome(c)).ok
                  /\ ~AbortsImmediately(LastFailure(c))
                  /\ Cardinality(OnWire(c)) < client.config.maxRetries
                  /\ calls[c].sleeps = Cardinality(OnWire(c))
            /\ (calls[c].st \in {"inflight", "returned", "thrown"}
                    /\ Cardinality(OnWire(c)) >= 1) =>
                  calls[c].sleeps = Cardinality(OnWire(c)) - 1
            /\ ~IsIdempotentCall(c) => calls[c].sleeps = 0)
    /\ [][\A c \in CallIds :
            (calls[c].st # "free" /\ Cardinality(OnWire(c))' > Cardinality(OnWire(c))) =>
                /\ calls[c].st = "sleeping"
                /\ calls'[c].sleeps = calls[c].sleeps]_vars

\* C20 witness: a call has ended after 3 attempts and 2 sleeps
C20_Witness ==
    \E c \in CallIds :
        /\ calls[c].st = "thrown"
        /\ Cardinality(OnWire(c)) = 3
        /\ calls[c].sleeps = 2
        /\ client.config.maxRetries = 3

----------------------------------------------------------------------------
(* Properties of what leaves the executor *)

\* C21: whatever a call of the executor throws is a SeennError (or one of
\* its subclasses) with a message, a code and a status, under every
\* configuration the constructor accepts and for every outcome of an attempt
C21_EveryFailureClassified ==
    \A c \in CallIds :
        calls[c].st = "thrown" =>
            /\ InstanceOfSeennError(calls[c].thrown)
            /\ {"message", "code", "statusCode"} \subseteq DOMAIN calls[c].thrown

\* C30: a call that has settled has put at least one request on the
\* network, under every configuration the constructor accepts
C30_AtLeastOneAttempt ==
    \A c \in CallIds : Ended(c) => Cardinality(OnWire(c)) >= 1

\* C26: a call made through get, post, put or delete never sends the
\* Idempotency-Key header, and a POST, PUT or DELETE makes exactly one
\* attempt and never sleeps: whatever failure that attempt ends in (timeout,
\* network error, 429, 5xx) is thrown at once
C26_WritesTriedOnce ==
    /\ \A i \in DOMAIN wire : ~wire[i].idempotencyKeyHeader
    /\ \A c \in CallIds :
          (Started(c) /\ calls[c].method # "GET") =>
              /\ Cardinality(OnWire(c)) = 1
              /\ calls[c].sleeps = 0
              /\ HasOutcome(c) => Ended(c)
              /\ (HasOutcome(c) /\ ~RequestFn(LastOutcome(c)).ok) =>
                    /\ calls[c].st = "thrown"
                    /\ calls[c].thrown = LastFailure(c)

\* C26 witness: under a maximum of 3, a POST answered 503 has thrown after
\* its only attempt
C26_Witness ==
    \E c \in CallIds :
        /\ client.ok
        /\ client.config.maxRetries = 3
        /\ calls[c].method = "POST"
        /\ calls[c].st = "thrown"
        /\ calls[c].thrown.statusCode = 503
        /\ Cardinality(OnWire(c)) = 1

----------------------------------------------------------------------------
(* Properties of the classification *)

\* the class the taxonomy has for a status
ExpectedName(status) ==
    CASE status = 400 -> "ValidationError"
      [] status = 401 -> "AuthenticationError"
      [] status = 404 -> "NotFoundError"
      [] status = 429 -> "RateLimitError"
      [] OTHER -> "SeennError"

\* the error object of a response's body, if it has one
HasErrorBody(out) == out.decodable /\ "error" \in DOMAIN out.body

WasRateLimited ==
    \E k \in DOMAIN calls[1].history : StatusAt(1, k) = 429

\* C22, as stated: a GET answered 429 with Retry-After: 5 is retried, and
\* the call ends by returning or by throwing a RateLimitError with
\* retryAfter 5
C22_RetriedThenRateLimit ==
    /\ [](WasRateLimited =>
            (calls[1].st = "sleeping" \/ Cardinality(OnWire(1)) >= 2))
    /\ WasRateLimited ~>
            \/ calls[1].st = "returned"
            \/ /\ calls[1].st = "thrown"
               /\ InstanceOfRateLimitError(calls[1].thrown)
               /\ calls[1].thrown.retryAfter = 5

\* C22: a GET whose first answer is 429 with Retry-After: 5 is retried when
\* the maximum allows a second attempt, after a sleep whose delay is that of
\* the backoff formula for the attempt (at most 1200 ms after the first
\* attempt: the 5 seconds of the header play no part); the call ends, by
\* returning or by throwing the failure of its last attempt, which is a
\* RateLimitError with retryAfter 5 when that attempt was answered 429
C22_RateLimitedGet ==
    /\ [](calls[1].st = "sleeping" =>
            /\ calls[1].delay \in
                  {Min(1000 * Pow2(calls[1].attempt)
                          + (r * 2 * 1000 * Pow2(calls[1].attempt)) \div 10000,
                       30000) : r \in 0 .. 999}
            /\ calls[1].attempt = 0 => calls[1].delay <= 1200)
    /\ []((HasOutcome(1) /\ StatusAt(1, 1) = 429 /\ client.config.maxRetries >= 2) =>
            (calls[1].st = "sleeping" \/ Cardinality(OnWire(1)) >= 2))
    /\ []((calls[1].st = "thrown" /\ HasOutcome(1)) =>
            /\ calls[1].thrown = LastFailure(1)
            /\ StatusAt(1, Len(calls[1].history)) = 429 =>
                  /\ InstanceOfRateLimitError(calls[1].thrown)
                  /\ calls[1].thrown.retryAfter = 5)
    /\ (calls[1].st = "inflight") ~> (calls[1].st \in {"returned", "thrown"})

\* C22 witness: the GET was answered 429 three times under the default
\* maximum, slept twice and threw the RateLimitError with retryAfter 5
C22_Witness ==
    /\ client.config.maxRetries = 3
    /\ calls[1].st = "thrown"
    /\ Len(calls[1].history) = 3
    /\ calls[1].sleeps = 2
    /\ \A k \in 1 .. 3 : StatusAt(1, k) = 429
    /\ calls[1].thrown.name = "RateLimitError"
    /\ calls[1].thrown.retryAfter = 5

----------------------------------------------------------------------------
(* Properties of the serialization of a handle *)

\* a field of a response as it reads once its timestamp is parsed
ParsedField(response, f) ==
    CASE f \in {"createdAt", "updatedAt"} -> DateParse(response[f])
      [] f \in {"startedAt", "completedAt"} ->
            IF "some" \in DOMAIN response[f]
            THEN Some(DateParse(response[f].some))
            ELSE response[f]
      [] OTHER -> response[f]

\* toJSON of the handle made of response has every field of response
RoundTrips(response) ==
    LET json == ToJSON(NewJob(response))
    IN  \A f \in DOMAIN response :
            f \in DOMAIN json /\ json[f] = ParsedField(response, f)

\* C24: for every response jobs.start or jobs.get has made a handle of, the
\* handle serialized at once has every field of the response with its value
C24_ToJsonRoundTrip ==
    \A o \in OpIds :
        (ops[o].kind \in {"jobs.start", "jobs.get"} /\ ops[o].pc = "returned") =>
            RoundTrips(calls[CallOf(o)].result)

----------------------------------------------------------------------------
(* Properties of the deadline of an attempt *)

\* C25: no attempt is pending once its deadline has passed: an attempt that
\* has not produced its decoded body by then ends in a Timeout
C25_DeadlineCoversBody ==
    \A c \in CallIds : calls[c].st # "overdue"

----------------------------------------------------------------------------
(* Properties of a failed batch *)

\* C27: when createBatch has failed because a child creation failed, the
\* only requests it has made are the creations (POST /v1/jobs) of the parent
\* and of every child, each once: nothing deletes or fails the parent or a
\* child, the refresh is not issued, the parent handle is as created, and
\* the sibling calls stay in flight until the network answers them
C27_NoCompensation ==
    \A o \in OpIds :
        (IsBatch(o) /\ ops[o].pc = "thrown" /\ FailedChildren(o) # {}) =>
            LET n == Len(ops[o].params.childTitles)
            IN  /\ \A i \in DOMAIN wire :
                      wire[i].method = "POST" /\ wire[i].path = <<"v1", "jobs">>
                /\ Len(wire) = 1 + n
                /\ calls[RefreshSlot].st = "free"
                /\ calls[ParentSlot].st = "returned"
                /\ handles[ops[o].h] = NewJob(calls[ParentSlot].result)
                /\ \A k \in ChildSlots(ops[o].params) :
                      /\ calls[k].st \in {"inflight", "returned", "thrown"}
                      /\ calls[k].st = "inflight" => calls[k].history = <<>>
                      /\ \A j \in DOMAIN calls[k].history :
                            calls[k].history[j].type # "abort"

\* C27 witness: a batch declared with 2 children has failed on one of them;
\* the other was created by a request answered after the failure, and the
\* parent says 2
C27_Witness ==
    \E o \in OpIds :
        /\ IsBatch(o)
        /\ ops[o].pc = "thrown"
        /\ FailedChildren(o) # {}
        /\ Len(ops[o].params.childTitles) = 2
        /\ handles[ops[o].h].children.some.total = 2
        /\ \E k, j \in ChildSlots(ops[o].params) :
              /\ calls[k].st = "thrown"
              /\ calls[j].st = "returned"
              /\ ops[o].children[j - 1] = NoJob
        /\ calls[RefreshSlot].st = "free"

----------------------------------------------------------------------------
(* Two executors side by side: call 1 runs in the client as configured,    *)
(* call 2 in a client that differs in debug alone; both are given the same *)
(* request, the same outcome of every attempt and the same Math.random().  *)

\* the same configuration with debug the other way round
OtherDebug(config) == [config EXCEPT !.debug = ~@]

DebugInit ==
    /\ client \in {NewSeennClient(s) : s \in AcceptedConfigs}
    /\ calls = [c \in {1, 2} |-> FreeCall]
    /\ wire = <<>>
    /\ handles = <<>>
    /\ ops = <<>>

\* both clients are asked for the same request
DoDebugRequest ==
    \E m \in Methods, k \in BOOLEAN :
        /\ calls[1].st = "free"
        /\ calls[2].st = "free"
        /\ LET a == StartCallWith(client.config, m, JobsPath, Undefined, k)
               b == StartCallWith(OtherDebug(client.config), m, JobsPath, Undefined, k)
           IN  Commit([World EXCEPT !.calls[1] = a, !.calls[2] = b,
                                    !.wire = @ \o Sent(1, a) \o Sent(2, b)])

\* the attempts in flight of both settle with the same outcome and the same
\* Math.random()
DoDebugSettle ==
    \E outcome \in Outcomes, random \in Randoms :
        /\ calls[1].st = "inflight"
        /\ calls[2].st = "inflight"
        /\ LET a == AfterAttemptWith(client.config,
                                     [calls[1] EXCEPT !.history = Append(@, outcome)],
                                     outcome, random)
               b == AfterAttemptWith(OtherDebug(client.config),
                                     [calls[2] EXCEPT !.history = Append(@, outcome)],
                                     outcome, random)
           IN  Commit([World EXCEPT !.calls[1] = a, !.calls[2] = b,
                                    !.wire = @ \o Sent(1, a) \o Sent(2, b)])

\* the timers of both sleeps fire
DoDebugWake ==
    /\ calls[1].st = "sleeping"
    /\ calls[2].st = "sleeping"
    /\ LET a == AfterSleep(calls[1])
           b == AfterSleep(calls[2])
       IN  Commit([World EXCEPT !.calls[1] = a, !.calls[2] = b,
                                !.wire = @ \o Sent(1, a) \o Sent(2, b)])

DebugNext == DoDebugRequest \/ DoDebugSettle \/ DoDebugWake

DebugSpec == DebugInit /\ [][DebugNext]_vars

\* the requests call c has put on the network, in order
RECURSIVE RequestsOf(_, _)
RequestsOf(c, sent) ==
    IF sent = <<>> THEN <<>>
    ELSE LET first == Head(sent)
         IN  (IF first.call = c THEN <<[first EXCEPT !.call = 0]>> ELSE <<>>)
             \o RequestsOf(c, Tail(sent))

\* what a call does and gives, the console apart
ControlFlow(call) == [call EXCEPT !.logged = 0]

\* C28: given the same request, the same outcome of every attempt and the
\* same jitter, the executor with debug on and the one with debug off are in
\* the same position with the same attempts made, the same sleeps of the
\* same length, the same requests sent and the same result or failure; they
\* differ in the lines logged alone
C28_DebugNoControlFlow ==
    /\ ControlFlow(calls[1]) = ControlFlow(calls[2])
    /\ RequestsOf(1, wire) = RequestsOf(2, wire)
    /\ client.config.debug =>
          calls[1].logged = calls[1].sleeps /\ calls[2].logged = 0
    /\ ~client.config.debug =>
          calls[2].logged = calls[2].sleeps /\ calls[1].logged = 0

\* C28 witness: both executors have slept twice for lengths that depend on
\* the jitter and have returned after a third attempt; one of them logged
\* two lines, the other none
C28_Witness ==
    /\ calls[1].st = "returned"
    /\ calls[2].st = "returned"
    /\ calls[1].attempts = 3
    /\ calls[2].sleeps = 2
    /\ calls[1].delay = 0
    /\ calls[1].logged # calls[2].logged
    /\ calls[1].logged + calls[2].logged = 2

----------------------------------------------------------------------------
(* Several calls of request() in flight at once through one client *)

MaxCalls == 2

ConcurrentOutcomes ==
    {Response(200, TRUE, OkBody, NoHeaders),
     Response(503, TRUE, ServerErrorBody, NoHeaders),
     FetchRejects}

ConcurrentRandoms == {0, 999}

\* clients that give an idempotent call one or two attempts
ConcurrentConfigs ==
    {[apiKey |-> <<"s", "k", "_", "x">>, maxRetries |-> m] : m \in {1, 2}}

ConcurrentInit ==
    /\ client \in {NewSeennClient(s) : s \in ConcurrentConfigs}
    /\ calls = [c \in 1 .. MaxCalls |-> FreeCall]
    /\ wire = <<>>
    /\ handles = <<>>
    /\ ops = <<>>

DoConcurrentRequest ==
    \E c \in CallIds, m \in {"GET", "POST"} : Request(c, m, JobsPath, FALSE)

DoConcurrentSettle ==
    \E c \in CallIds, o \in ConcurrentOutcomes, r \in ConcurrentRandoms :
        Settle(c, o, r)

ConcurrentNext == DoConcurrentRequest \/ DoConcurrentSettle \/ DoWake

ConcurrentSpec == ConcurrentInit /\ [][ConcurrentNext]_vars

\* the call with these options run on its own against the outcomes in
\* history, every sleep but the last one slept through
RECURSIVE Alone(_, _)
Alone(call, history) ==
    IF history = <<>> THEN call
    ELSE LET awake == IF call.st = "sleeping" THEN AfterSleep(call) ELSE call
             outcome == Head(history)
         IN  Alone(AfterAttempt([awake EXCEPT !.history = Append(@, outcome)],
                                outcome, 0),
                   Tail(history))

\* a call's retry state, the length of the sleep apart
RetryState(call) == [call EXCEPT !.delay = 0]

\* call is where a call of its own options and outcomes is when run alone,
\* still in its last sleep or past it
AsWhenAlone(call) ==
    LET alone == Alone(StartCall(call.method, call.path, call.body,
                                 call.idempotencyKey),
                       call.history)
    IN  /\ \/ RetryState(call) = RetryState(alone)
           \/ /\ alone.st = "sleeping"
              /\ RetryState(call) = RetryState(AfterSleep(alone))
        /\ call.st = "sleeping" =>
              \E r \in ConcurrentRandoms : call.delay = BackoffDelay(call.attempt, r)
        /\ call.st # "sleeping" => call.delay = 0

\* C29: whatever the interleaving, each call's attempt counter, last error,
\* attempts, sleeps and backoff are those of the same call run alone on its
\* own outcomes; a step of one call changes no other call; and no step
\* changes the client or its configuration
C29_NoSharedRetryState ==
    /\ [](\A c \in 1 .. MaxCalls : calls[c].st # "free" => AsWhenAlone(calls[c]))
    /\ [][/\ client' = client
          /\ \A c \in 1 .. MaxCalls :
                calls'[c] # calls[c] =>
                    \A d \in (1 .. MaxCalls) \ {c} : calls'[d] = calls[d]]_vars

\* C29 witness: two calls through the same client are at different points
\* of their retry loops, one in its second attempt after a failure of the
\* network and one asleep after its first attempt was answered 503, each
\* with its own last error and its own sleep
C29_Witness ==
    /\ calls[1].st = "inflight"
    /\ calls[1].attempt = 1
    /\ calls[1].attempts = 2
    /\ calls[1].lastError.code = "NETWORK_ERROR"
    /\ calls[2].st = "sleeping"
    /\ calls[2].attempt = 0
    /\ calls[2].lastError.statusCode = 503
    /\ calls[2].delay = BackoffDelay(0, 999)
    /\ Len(wire) = 3

----------------------------------------------------------------------------
(* Properties of the end of a call *)

\* the attempt got a 2xx response whose body decodes
SuccessfulOutcome(outcome) ==
    /\ outcome.type = "response"
    /\ ResponseOk(outcome.status)
    /\ outcome.decodable

\* C31: an attempt that succeeds is the last thing its call does: the call
\* has returned the body of that attempt, every earlier attempt of the call
\* failed, nothing is thrown although earlier attempts failed, and from then
\* on the call makes no attempt, sleeps no more and sends nothing
C31_FirstSuccessEnds ==
    /\ [](\A c \in {1} :
            /\ \A i \in DOMAIN calls[c].history :
                  SuccessfulOutcome(calls[c].history[i]) =>
                      /\ i = Len(calls[c].history)
                      /\ calls[c].st = "returned"
                      /\ calls[c].result = calls[c].history[i].body
                      /\ IsUndefined(calls[c].thrown)
                      /\ calls[c].attempts = i
                      /\ calls[c].sleeps = i - 1
            /\ calls[c].st = "returned" =>
                  /\ calls[c].history # <<>>
                  /\ SuccessfulOutcome(calls[c].history[Len(calls[c].history)]))
    /\ [][calls[1].st = "returned" => (calls' = calls /\ wire' = wire)]_vars

\* C31 witness: a call has returned the body of its third attempt after two
\* attempts that failed and two sleeps
C31_Witness ==
    /\ client.ok
    /\ calls[1].st = "returned"
    /\ Len(calls[1].history) = 3
    /\ ~SuccessfulOutcome(calls[1].history[1])
    /\ ~SuccessfulOutcome(calls[1].history[2])
    /\ calls[1].result = OkBody
    /\ ~IsUndefined(calls[1].lastError)
    /\ calls[1].sleeps = 2


\* the executor against a network that settles every attempt, with timers
\* that fire: an attempt in flight is eventually settled and a sleep
\* eventually ends
TerminationSpec ==
    /\ Init
    /\ [][Next]_vars
    /\ WF_vars(DoSettle)
    /\ WF_vars(DoWake)

\* the attempts a call may make: config.maxRetries if idempotent, else 1
BudgetOf(call) ==
    AttemptBudget(Idempotent(call.method, call.idempotencyKey), client.config)

\* C32: when every attempt settles and every sleep ends, a call that was
\* made ends, returned or thrown; no attempt of a call is numbered above its
\* maximum and no sleep above its maximum minus one, whatever the outcomes,
\* so repeated retryable failures do not keep it going
C32_CallTerminates ==
    /\ (calls[1].st # "free") ~> (calls[1].st \in {"returned", "thrown"})
    /\ [](calls[1].st # "free" =>
            /\ \A k \in 1 .. calls[1].attempts : k <= BudgetOf(calls[1])
            /\ \A k \in 1 .. calls[1].sleeps : k <= BudgetOf(calls[1]) - 1
            /\ calls[1].sleeps <= calls[1].attempts
            /\ Len(calls[1].history) <= calls[1].attempts)

\* C32 witness: an idempotent call with a maximum of 3 has ended, thrown,
\* after 3 attempts that all failed with retryable failures and 2 sleeps
C32_Witness ==
    /\ client.ok
    /\ client.config.maxRetries = 3
    /\ calls[1].st = "thrown"
    /\ calls[1].attempts = 3
    /\ calls[1].sleeps = 2
    /\ \A k \in DOMAIN calls[1].history : RetryableOutcome(calls[1].history[k])

----------------------------------------------------------------------------
(* Properties of the children createBatch returns *)

\* createBatch awaits its children and the response to child call k arrives
\* in this step while the child call of a lower index is still in flight
ArrivesBeforeEarlier(k) ==
    /\ ops[1].pc = "children"
    /\ calls[k].st = "inflight"
    /\ calls'[k].st = "returned"
    /\ \E j \in ChildSlots(ops[1].params) : j < k /\ calls'[j].st = "inflight"

\* C33: when createBatch has returned, its k-th child (0-based) is the
\* handle made of the response to the request that carried childIndex k, the
\* k-th title and the id the parent creation returned; and a response that
\* arrives before the response of an earlier child takes the place of its own
\* index and leaves the earlier places empty
C33_ChildrenInTitleOrder ==
    /\ [](ops[1].pc = "returned" =>
            LET titles == ops[1].params.childTitles
                kids == ops[1].value.children
            IN  /\ Len(kids) = Len(titles)
                /\ \A i \in 1 .. Len(titles) :
                      LET call == calls[ChildSlot(i - 1)]
                      IN  /\ call.st = "returned"
                          /\ call.body.childIndex = i - 1
                          /\ call.body.title = titles[i]
                          /\ call.body.parentJobId = calls[ParentSlot].result.id
                          /\ kids[i] = NewJob(call.result)
                          /\ kids[i].title = titles[i]
                          /\ kids[i].parent.some.childIndex = i - 1
                          /\ kids[i].parent.some.parentJobId = calls[ParentSlot].result.id)
    /\ [][\A k \in 2 .. MaxChildren + 1 :
            ArrivesBeforeEarlier(k) =>
                /\ ops'[1].children[k - 1] = NewJob(calls'[k].result)
                /\ \A j \in ChildSlots(ops[1].params) :
                      calls'[j].st = "inflight" => ops'[1].children[j - 1] = NoJob]_vars

\* C33 witness: createBatch has returned two children for two titles, the
\* first with childIndex 0 and the first title, the second with childIndex 1
\* and the second title
C33_Witness ==
    /\ ops[1].pc = "returned"
    /\ Len(ops[1].params.childTitles) = 2
    /\ Len(ops[1].value.children) = 2
    /\ ops[1].value.children[1].title = ops[1].params.childTitles[1]
    /\ ops[1].value.children[2].title = ops[1].params.childTitles[2]
    /\ ops[1].value.children[1].title # ops[1].value.children[2].title
    /\ ops[1].value.children[2].parent.some.childIndex = 1
    /\ ops[1].value.children[1].parent.some.parentJobId = "job_p"

----------------------------------------------------------------------------
(* Properties of a 2xx response with a body that is not JSON *)

\* the attempt got a 2xx response whose body does not decode
UndecodableSuccess(outcome) ==
    /\ outcome.type = "response"
    /\ ResponseOk(outcome.status)
    /\ ~outcome.decodable

\* a failure of the network class: a plain SeennError NETWORK_ERROR, status 0
IsNetworkError(error) ==
    /\ InstanceOfSeennError(error)
    /\ error.name = "SeennError"
    /\ error.code = "NETWORK_ERROR"
    /\ error.statusCode = 0

\* C34: an attempt answered 2xx with a body that does not decode never makes
\* its call return; it fails as a NETWORK_ERROR with status 0; while the call
\* has attempts left (an idempotent call below its maximum) the call sleeps
\* and makes the next attempt, and otherwise it throws that failure
C34_UndecodableIsNetworkError ==
    \A c \in CallIds :
        \A i \in DOMAIN calls[c].history :
            UndecodableSuccess(calls[c].history[i]) =>
                /\ ~RequestFn(calls[c].history[i]).ok
                /\ IsNetworkError(RequestFn(calls[c].history[i]).error)
                /\ i < BudgetOf(calls[c]) =>
                      /\ calls[c].sleeps >= i
                      /\ i = Len(calls[c].history) =>
                            \/ calls[c].st = "sleeping"
                            \/ calls[c].st = "inflight" /\ calls[c].attempts = i + 1
                      /\ i < Len(calls[c].history) => calls[c].attempts >= i + 1
                /\ i >= BudgetOf(calls[c]) =>
                      /\ i = Len(calls[c].history)
                      /\ calls[c].st = "thrown"
                      /\ IsNetworkError(calls[c].thrown)
                      /\ calls[c].attempts = i
                /\ i = Len(calls[c].history) =>
                      /\ calls[c].st # "returned"
                      /\ IsUndefined(calls[c].result)
                      /\ IsNetworkError(calls[c].lastError)

\* C34 witness: an idempotent call with a maximum of 2 was answered 200 with
\* a body that is not JSON twice: it slept once after the first and has
\* thrown the NETWORK_ERROR of the second
C34_Witness ==
    /\ client.ok
    /\ client.config.maxRetries = 2
    /\ calls[1].idempotent
    /\ Len(calls[1].history) = 2
    /\ UndecodableSuccess(calls[1].history[1])
    /\ UndecodableSuccess(calls[1].history[2])
    /\ calls[1].sleeps = 1
    /\ calls[1].st = "thrown"
    /\ IsNetworkError(calls[1].thrown)

----------------------------------------------------------------------------
(* A handle fetched by jobs.get and refreshed, with its ETA getters read at *)
(* any instant                                                              *)

\* what the server may say of the job: no ETA, "estimatedCompletionAt": null,
\* an ETA ahead or behind, on a live or a finished job, an ETA that is not a
\* date; or a failure
RemainingOutcomes ==
    {Response(200, TRUE, PendingResponse("job_1", "t"), NoHeaders),
     Response(200, TRUE, [PendingResponse("job_1", "t") EXCEPT
                            !.estimatedCompletionAt = Null], NoHeaders),
     Response(200, TRUE, RunningResponse("job_1", "t"), NoHeaders),
     Response(200, TRUE, [RunningResponse("job_1", "t") EXCEPT
                            !.estimatedCompletionAt = Some("1970-01-01T00:00:01.000Z")],
              NoHeaders),
     Response(200, TRUE, CompletedResponse("job_1", "t"), NoHeaders),
     Response(200, TRUE, NullChildrenResponse("job_1", "t"), NoHeaders),
     Response(503, TRUE, ServerErrorBody, NoHeaders),
     FetchRejects}

RemainingInit ==
    /\ client \in {NewSeennClient(s) : s \in HandleConfigs}
    /\ calls = [c \in {1, 2} |-> FreeCall]
    /\ wire = <<>>
    /\ handles = [h \in {1} |-> NoJob]
    /\ ops = [o \in {1, 2} |-> IdleOp]

DoRemainingGet == JobsGet(1, 1, 1, "job_1")

DoRemainingRefresh == Refresh(2, 2, 1)

DoRemainingSettle ==
    \E c \in CallIds, out \in RemainingOutcomes, r \in HandleRandoms : Settle(c, out, r)

RemainingNext == DoRemainingGet \/ DoRemainingRefresh \/ DoRemainingSettle \/ DoWake

RemainingSpec == RemainingInit /\ [][RemainingNext]_vars

\* C35: read at any instant, etaRemaining is null exactly when the handle
\* has no ETA (none in the response, or null); with an ETA that is a date it
\* is eta - now when that is positive and 0 otherwise; it is never a
\* negative number; and when isPastEta is true at that instant it is 0. (An
\* ETA that is not a date gives NaN, not a negative number, and isPastEta
\* false.)
C35_EtaRemainingClamped ==
    \A h \in DOMAIN handles, now \in Nows :
        IsJob(handles[h]) =>
            LET job == handles[h]
                remaining == EtaRemaining(job, now)
                noEta == job.estimatedCompletionAt \in {Undefined, Null}
            IN  /\ IsNull(remaining) <=> noEta
                /\ ~noEta =>
                      LET eta == DateParse(job.estimatedCompletionAt.some)
                      IN  IF "time" \in DOMAIN eta
                          THEN /\ "some" \in DOMAIN remaining
                               /\ remaining.some >= 0
                               /\ remaining.some >= eta.time - now
                               /\ remaining.some \in {0, eta.time - now}
                          ELSE remaining = NaN /\ ~IsPastEta(job, now)
                /\ "some" \in DOMAIN remaining => remaining.some >= 0
                /\ IsPastEta(job, now) => remaining = Some(0)

\* C35 witness: a running job with an ETA at 3000 has 2500 ms left at 500,
\* nothing left at 3000 without being past its ETA, and nothing left and
\* past its ETA at 3001
C35_Witness ==
    /\ IsJob(handles[1])
    /\ handles[1].status = "running"
    /\ EtaRemaining(handles[1], 500) = Some(2500)
    /\ EtaRemaining(handles[1], 3000) = Some(0)
    /\ ~IsPastEta(handles[1], 3000)
    /\ EtaRemaining(handles[1], 3001) = Some(0)
    /\ IsPastEta(handles[1], 3001)

====
